---- MODULE Spec2Model ----
(***************************************************************************)
(* FinMentor guardrails: the policy router (route, _safe_rewrite_for_advice,*)
(* _sanitize_rewrite) and the ConceptCard validator (validate_conceptcard). *)
(*                                                                         *)
(* Text is a sequence of one-character strings.  The regular expressions   *)
(* of the source are terms (Lit, In, Cat, Alt, Rep ...) interpreted by     *)
(* Ends, a backtracking matcher that lists the end positions of a match in *)
(* the order Python's re tries them, so the first one is the match re      *)
(* reports.                                                                *)
(***************************************************************************)
EXTENDS Integers, Sequences, FiniteSets, TLC

----------------------------------------------------------------------------
(* Characters and the str methods the source uses.                         *)

LowerLetters ==
    {"a", "b", "c", "d", "e", "f", "g", "h", "i", "j", "k", "l", "m",
     "n", "o", "p", "q", "r", "s", "t", "u", "v", "w", "x", "y", "z"}

UpperLetters ==
    {"A", "B", "C", "D", "E", "F", "G", "H", "I", "J", "K", "L", "M",
     "N", "O", "P", "Q", "R", "S", "T", "U", "V", "W", "X", "Y", "Z"}

Digits == {"0", "1", "2", "3", "4", "5", "6", "7", "8", "9"}

\* \s, and the characters str.strip() removes
Whitespace == {" ", "\t", "\n", "\r"}

\* Two characters outside ASCII, written by their code points: the capital
\* I with a dot above, a letter, and the combining dot above, a mark that is
\* neither a word character nor whitespace.
DottedCapitalI == "U+0130"
CombiningDot == "U+0307"

\* \w
WordChars == LowerLetters \cup UpperLetters \cup Digits \cup {"_", DottedCapitalI}

LowerOf ==
    [c \in UpperLetters |->
        CASE c = "A" -> "a" [] c = "B" -> "b" [] c = "C" -> "c" [] c = "D" -> "d"
          [] c = "E" -> "e" [] c = "F" -> "f" [] c = "G" -> "g" [] c = "H" -> "h"
          [] c = "I" -> "i" [] c = "J" -> "j" [] c = "K" -> "k" [] c = "L" -> "l"
          [] c = "M" -> "m" [] c = "N" -> "n" [] c = "O" -> "o" [] c = "P" -> "p"
          [] c = "Q" -> "q" [] c = "R" -> "r" [] c = "S" -> "s" [] c = "T" -> "t"
          [] c = "U" -> "u" [] c = "V" -> "v" [] c = "W" -> "w" [] c = "X" -> "x"
          [] c = "Y" -> "y" [] c = "Z" -> "z"]

\* The lower case of one character as re.IGNORECASE compares it: always one
\* character
ToLower(c) ==
    IF c \in UpperLetters THEN LowerOf[c]
    ELSE IF c = DottedCapitalI THEN "i"
    ELSE c

\* Where the lower case of s[k] starts in s.lower(): the capital I with a
\* dot above becomes two characters, i and the combining dot
LowerStart(s, k) == k + Cardinality({j \in 1..(k - 1) : s[j] = DottedCapitalI})

\* str.lower()
Lower(s) ==
    IF \A k \in 1..Len(s) : s[k] # DottedCapitalI
    THEN [k \in 1..Len(s) |-> ToLower(s[k])]
    ELSE [j \in 1..(LowerStart(s, Len(s) + 1) - 1) |->
            IF \E k \in 1..Len(s) : LowerStart(s, k) = j
            THEN ToLower(s[CHOOSE k \in 1..Len(s) : LowerStart(s, k) = j])
            ELSE CombiningDot]

\* str.strip()
Strip(s) ==
    LET keep == {k \in 1..Len(s) : s[k] \notin Whitespace}
    IN  IF keep = {} THEN <<>>
        ELSE LET lo == CHOOSE k \in keep : \A j \in keep : k <= j
                 hi == CHOOSE k \in keep : \A j \in keep : j <= k
             IN  SubSeq(s, lo, hi)

\* needle in haystack
Contains(haystack, needle) ==
    \E k \in 1..(Len(haystack) - Len(needle) + 1) :
        SubSeq(haystack, k, k + Len(needle) - 1) = needle

----------------------------------------------------------------------------
(* Regular expressions as the re module matches them.                      *)

Lit(str) == [t |-> "lit", s |-> str]
In(chars) == [t |-> "set", c |-> chars]
NotIn(chars) == [t |-> "notset", c |-> chars]
AnyChar == [t |-> "any"]
WB == [t |-> "wb"]
Cat(rs) == [t |-> "cat", r |-> rs]
Alt(rs) == [t |-> "alt", r |-> rs]
Eps == Cat(<<>>)
Rep(re, lo, hi) == [t |-> "rep", r |-> re, lo |-> lo, hi |-> hi, inf |-> FALSE]
Star(re) == [t |-> "rep", r |-> re, lo |-> 0, hi |-> 0, inf |-> TRUE]
Plus(re) == [t |-> "rep", r |-> re, lo |-> 1, hi |-> 0, inf |-> TRUE]
Opt(re) == Rep(re, 0, 1)

\* one character against a literal one; ic is re.IGNORECASE
CharEq(c, p, ic) == c = p \/ (ic /\ ToLower(c) = ToLower(p))

\* one character against a class
InClass(c, chars, ic) == c \in chars \/ (ic /\ ToLower(c) \in chars)

LitAt(str, s, i, ic) ==
    /\ i + Len(str) - 1 <= Len(s)
    /\ \A k \in 1..Len(str) : CharEq(s[i + k - 1], str[k], ic)

IsWordAt(s, i) == i >= 1 /\ i <= Len(s) /\ s[i] \in WordChars

\* \b between s[i-1] and s[i]
AtBoundary(s, i) == IsWordAt(s, i - 1) # IsWordAt(s, i)

RECURSIVE Ends(_, _, _, _)
RECURSIVE EndsCat(_, _, _, _, _)
RECURSIVE EndsAlt(_, _, _, _, _)
RECURSIVE EndsRep(_, _, _, _, _, _)

\* The positions a match of re that starts at i (the index of its first
\* character) can end at (the index after its last character), in the
\* order the backtracking matcher reaches them: greedy repeats first,
\* alternatives left to right.
Ends(re, s, i, ic) ==
    CASE re.t = "lit" -> IF LitAt(re.s, s, i, ic) THEN <<i + Len(re.s)>> ELSE <<>>
      [] re.t = "set" ->
            IF i <= Len(s) /\ InClass(s[i], re.c, ic) THEN <<i + 1>> ELSE <<>>
      [] re.t = "notset" ->
            IF i <= Len(s) /\ ~InClass(s[i], re.c, ic) THEN <<i + 1>> ELSE <<>>
      [] re.t = "any" -> IF i <= Len(s) /\ s[i] # "\n" THEN <<i + 1>> ELSE <<>>
      [] re.t = "wb" -> IF AtBoundary(s, i) THEN <<i>> ELSE <<>>
      [] re.t = "cat" -> EndsCat(re.r, 1, s, <<i>>, ic)
      [] re.t = "alt" -> EndsAlt(re.r, 1, s, i, ic)
      [] re.t = "rep" ->
            EndsRep(re.r, re.lo, IF re.inf THEN Len(s) + 1 ELSE re.hi, s, <<i>>, ic)

\* rs[k], rs[k+1], ... in sequence, from each of starts
EndsCat(rs, k, s, starts, ic) ==
    IF starts = <<>> THEN <<>>
    ELSE (IF k > Len(rs) THEN <<Head(starts)>>
          ELSE EndsCat(rs, k + 1, s, Ends(rs[k], s, Head(starts), ic), ic))
         \o EndsCat(rs, k, s, Tail(starts), ic)

\* rs[k] | rs[k+1] | ...
EndsAlt(rs, k, s, i, ic) ==
    IF k > Len(rs) THEN <<>>
    ELSE Ends(rs[k], s, i, ic) \o EndsAlt(rs, k + 1, s, i, ic)

\* re{lo,hi}, greedy, from each of starts; an iteration consumes a character
EndsRep(re, lo, hi, s, starts, ic) ==
    IF starts = <<>> THEN <<>>
    ELSE LET i == Head(starts)
             once == SelectSeq(Ends(re, s, i, ic), LAMBDA e : e > i)
             more == IF hi = 0 THEN <<>>
                     ELSE EndsRep(re, IF lo > 0 THEN lo - 1 ELSE 0, hi - 1, s, once, ic)
         IN  more \o (IF lo = 0 THEN <<i>> ELSE <<>>)
             \o EndsRep(re, lo, hi, s, Tail(starts), ic)

\* re.search(re, s) is not None
Search(re, s, ic) == \E i \in 1..(Len(s) + 1) : Ends(re, s, i, ic) # <<>>

\* re.fullmatch(re, s) is not None
FullMatch(re, s, ic) ==
    LET ends == Ends(re, s, 1, ic)
    IN  \E k \in 1..Len(ends) : ends[k] = Len(s) + 1

RECURSIVE SubUpTo(_, _, _, _, _, _)
\* One stretch of re.sub's scan: from pos, the leftmost matches that start
\* at or before last, each replaced by repl.  Gives the text produced and
\* the position the scan has reached.  (No pattern substituted here
\* matches the empty string.)
SubUpTo(re, repl, s, pos, last, ic) ==
    IF pos > last THEN [out |-> <<>>, pos |-> pos]
    ELSE LET ends == Ends(re, s, pos, ic)
             hit == ends # <<>> /\ Head(ends) > pos
             rest == SubUpTo(re, repl, s, IF hit THEN Head(ends) ELSE pos + 1, last, ic)
         IN  [out |-> (IF hit THEN repl ELSE <<s[pos]>>) \o rest.out, pos |-> rest.pos]

RECURSIVE SubFrom(_, _, _, _, _)
\* re.sub(re, repl, s) from position pos on, a stretch at a time
SubFrom(re, repl, s, pos, ic) ==
    IF pos > Len(s) THEN <<>>
    ELSE LET last == IF pos + 15 < Len(s) THEN pos + 15 ELSE Len(s)
             stretch == SubUpTo(re, repl, s, pos, last, ic)
         IN  stretch.out \o SubFrom(re, repl, s, stretch.pos, ic)

\* re.sub(re, repl, s)
Sub(re, repl, s, ic) == SubFrom(re, repl, s, 1, ic)

----------------------------------------------------------------------------
(* policy_router.py                                                        *)

ALLOW == "ALLOW"
TRANSFORM == "TRANSFORM"
REFUSE == "REFUSE"

REASON_GENERAL_EDU == "general_education"
REASON_PERSONALIZED_ADVICE == "personalized_advice"
REASON_ASSET_RECOMMENDATION == "asset_recommendation"
REASON_TIMING_REQUEST == "timing_request"
REASON_PORTFOLIO_ALLOCATION == "portfolio_allocation"
REASON_ILLEGAL_FINANCIAL == "illegal_financial"
REASON_AMBIGUOUS == "ambiguous"

ILLEGAL_PATTERNS ==
    <<
      \* r"\bmoney\s+launder(ing|)\b"
      Cat(<<WB, Lit(<<"m", "o", "n", "e", "y">>), Plus(In(Whitespace)), Lit(<<"l", "a", "u", "n", "d", "e", "r">>), Alt(<<Lit(<<"i", "n", "g">>), Eps>>), WB>>),
      \* r"\blaunder(ing|)\b.*\bmoney\b"
      Cat(<<WB, Lit(<<"l", "a", "u", "n", "d", "e", "r">>), Alt(<<Lit(<<"i", "n", "g">>), Eps>>), WB, Star(AnyChar), WB, Lit(<<"m", "o", "n", "e", "y">>), WB>>),
      \* r"\binsider\s+trad(ing|e)\b"
      Cat(<<WB, Lit(<<"i", "n", "s", "i", "d", "e", "r">>), Plus(In(Whitespace)), Lit(<<"t", "r", "a", "d">>), Alt(<<Lit(<<"i", "n", "g">>), Lit(<<"e">>)>>), WB>>),
      \* r"\bfront[-\s]?run(ning|)\b"
      Cat(<<WB, Lit(<<"f", "r", "o", "n", "t">>), Opt(In(Whitespace \cup {"-"})), Lit(<<"r", "u", "n">>), Alt(<<Lit(<<"n", "i", "n", "g">>), Eps>>), WB>>),
      \* r"\bevade\s+tax(es|)\b"
      Cat(<<WB, Lit(<<"e", "v", "a", "d", "e">>), Plus(In(Whitespace)), Lit(<<"t", "a", "x">>), Alt(<<Lit(<<"e", "s">>), Eps>>), WB>>),
      \* r"\btax\s+evasion\b"
      Cat(<<WB, Lit(<<"t", "a", "x">>), Plus(In(Whitespace)), Lit(<<"e", "v", "a", "s", "i", "o", "n">>), WB>>),
      \* r"\bfake\s+(receipt|invoic)e(s|)\b"
      Cat(<<WB, Lit(<<"f", "a", "k", "e">>), Plus(In(Whitespace)), Alt(<<Lit(<<"r", "e", "c", "e", "i", "p", "t">>), Lit(<<"i", "n", "v", "o", "i", "c">>)>>), Lit(<<"e">>), Alt(<<Lit(<<"s">>), Eps>>), WB>>),
      \* r"\bforg(e|ing)\s+(a|an)\s+(receipt|invoice|statement)\b"
      Cat(<<WB, Lit(<<"f", "o", "r", "g">>), Alt(<<Lit(<<"e">>), Lit(<<"i", "n", "g">>)>>), Plus(In(Whitespace)), Alt(<<Lit(<<"a">>), Lit(<<"a", "n">>)>>), Plus(In(Whitespace)), Alt(<<Lit(<<"r", "e", "c", "e", "i", "p", "t">>), Lit(<<"i", "n", "v", "o", "i", "c", "e">>), Lit(<<"s", "t", "a", "t", "e", "m", "e", "n", "t">>)>>), WB>>),
      \* r"\bcommit\s+fraud\b"
      Cat(<<WB, Lit(<<"c", "o", "m", "m", "i", "t">>), Plus(In(Whitespace)), Lit(<<"f", "r", "a", "u", "d">>), WB>>),
      \* r"\bponzi\b"
      Cat(<<WB, Lit(<<"p", "o", "n", "z", "i">>), WB>>)
    >>

ADVICE_PATTERNS ==
    <<
      \* r"\bwhat\s+should\s+i\s+(invest|buy|do)\b"
      Cat(<<WB, Lit(<<"w", "h", "a", "t">>), Plus(In(Whitespace)), Lit(<<"s", "h", "o", "u", "l", "d">>), Plus(In(Whitespace)), Lit(<<"i">>), Plus(In(Whitespace)), Alt(<<Lit(<<"i", "n", "v", "e", "s", "t">>), Lit(<<"b", "u", "y">>), Lit(<<"d", "o">>)>>), WB>>),
      \* r"\bshould\s+i\s+(buy|sell|invest)\b"
      Cat(<<WB, Lit(<<"s", "h", "o", "u", "l", "d">>), Plus(In(Whitespace)), Lit(<<"i">>), Plus(In(Whitespace)), Alt(<<Lit(<<"b", "u", "y">>), Lit(<<"s", "e", "l", "l">>), Lit(<<"i", "n", "v", "e", "s", "t">>)>>), WB>>),
      \* r"\bis\s+.+\s+a\s+good\s+(buy|investment)\b"
      Cat(<<WB, Lit(<<"i", "s">>), Plus(In(Whitespace)), Plus(AnyChar), Plus(In(Whitespace)), Lit(<<"a">>), Plus(In(Whitespace)), Lit(<<"g", "o", "o", "d">>), Plus(In(Whitespace)), Alt(<<Lit(<<"b", "u", "y">>), Lit(<<"i", "n", "v", "e", "s", "t", "m", "e", "n", "t">>)>>), WB>>),
      \* r"\b(best|top)\s+(stock|etf|crypto|investment)\b"
      Cat(<<WB, Alt(<<Lit(<<"b", "e", "s", "t">>), Lit(<<"t", "o", "p">>)>>), Plus(In(Whitespace)), Alt(<<Lit(<<"s", "t", "o", "c", "k">>), Lit(<<"e", "t", "f">>), Lit(<<"c", "r", "y", "p", "t", "o">>), Lit(<<"i", "n", "v", "e", "s", "t", "m", "e", "n", "t">>)>>), WB>>),
      \* r"\bwhich\s+(stock|etf|crypto)\s+should\s+i\s+(buy|pick)\b"
      Cat(<<WB, Lit(<<"w", "h", "i", "c", "h">>), Plus(In(Whitespace)), Alt(<<Lit(<<"s", "t", "o", "c", "k">>), Lit(<<"e", "t", "f">>), Lit(<<"c", "r", "y", "p", "t", "o">>)>>), Plus(In(Whitespace)), Lit(<<"s", "h", "o", "u", "l", "d">>), Plus(In(Whitespace)), Lit(<<"i">>), Plus(In(Whitespace)), Alt(<<Lit(<<"b", "u", "y">>), Lit(<<"p", "i", "c", "k">>)>>), WB>>),
      \* r"\b(rate|rank)\s+.+\s+(stock|etf|crypto)\b"
      Cat(<<WB, Alt(<<Lit(<<"r", "a", "t", "e">>), Lit(<<"r", "a", "n", "k">>)>>), Plus(In(Whitespace)), Plus(AnyChar), Plus(In(Whitespace)), Alt(<<Lit(<<"s", "t", "o", "c", "k">>), Lit(<<"e", "t", "f">>), Lit(<<"c", "r", "y", "p", "t", "o">>)>>), WB>>),
      \* r"\bbest\s+way\s+to\s+invest\b"
      Cat(<<WB, Lit(<<"b", "e", "s", "t">>), Plus(In(Whitespace)), Lit(<<"w", "a", "y">>), Plus(In(Whitespace)), Lit(<<"t", "o">>), Plus(In(Whitespace)), Lit(<<"i", "n", "v", "e", "s", "t">>), WB>>),
      \* r"\binvest\s+my\s+money\b"
      Cat(<<WB, Lit(<<"i", "n", "v", "e", "s", "t">>), Plus(In(Whitespace)), Lit(<<"m", "y">>), Plus(In(Whitespace)), Lit(<<"m", "o", "n", "e", "y">>), WB>>),
      \* r"\bwhat'?s\s+the\s+best\s+way\s+to\s+invest\b"
      Cat(<<WB, Lit(<<"w", "h", "a", "t">>), Opt(Lit(<<"'">>)), Lit(<<"s">>), Plus(In(Whitespace)), Lit(<<"t", "h", "e">>), Plus(In(Whitespace)), Lit(<<"b", "e", "s", "t">>), Plus(In(Whitespace)), Lit(<<"w", "a", "y">>), Plus(In(Whitespace)), Lit(<<"t", "o">>), Plus(In(Whitespace)), Lit(<<"i", "n", "v", "e", "s", "t">>), WB>>)
    >>

ALLOCATION_PATTERNS ==
    <<
      \* r"\ballocat(e|ion)\b"
      Cat(<<WB, Lit(<<"a", "l", "l", "o", "c", "a", "t">>), Alt(<<Lit(<<"e">>), Lit(<<"i", "o", "n">>)>>), WB>>),
      \* r"\bmy\s+portfolio\b"
      Cat(<<WB, Lit(<<"m", "y">>), Plus(In(Whitespace)), Lit(<<"p", "o", "r", "t", "f", "o", "l", "i", "o">>), WB>>),
      \* r"\bdiversif(y|ication)\s+my\s+portfolio\b"
      Cat(<<WB, Lit(<<"d", "i", "v", "e", "r", "s", "i", "f">>), Alt(<<Lit(<<"y">>), Lit(<<"i", "c", "a", "t", "i", "o", "n">>)>>), Plus(In(Whitespace)), Lit(<<"m", "y">>), Plus(In(Whitespace)), Lit(<<"p", "o", "r", "t", "f", "o", "l", "i", "o">>), WB>>),
      \* r"\bI\s+have\s+\$?\d"
      Cat(<<WB, Lit(<<"I">>), Plus(In(Whitespace)), Lit(<<"h", "a", "v", "e">>), Plus(In(Whitespace)), Opt(Lit(<<"$">>)), In(Digits)>>),
      \* r"\bwith\s+\$?\d"
      Cat(<<WB, Lit(<<"w", "i", "t", "h">>), Plus(In(Whitespace)), Opt(Lit(<<"$">>)), In(Digits)>>),
      \* r"\bhow\s+should\s+i\s+invest\s+\$?\d"
      Cat(<<WB, Lit(<<"h", "o", "w">>), Plus(In(Whitespace)), Lit(<<"s", "h", "o", "u", "l", "d">>), Plus(In(Whitespace)), Lit(<<"i">>), Plus(In(Whitespace)), Lit(<<"i", "n", "v", "e", "s", "t">>), Plus(In(Whitespace)), Opt(Lit(<<"$">>)), In(Digits)>>),
      \* r"\bretirement\s+plan\b"
      Cat(<<WB, Lit(<<"r", "e", "t", "i", "r", "e", "m", "e", "n", "t">>), Plus(In(Whitespace)), Lit(<<"p", "l", "a", "n">>), WB>>),
      \* r"\bbuild\s+me\s+(a|an)\s+(portfolio|plan)\b"
      Cat(<<WB, Lit(<<"b", "u", "i", "l", "d">>), Plus(In(Whitespace)), Lit(<<"m", "e">>), Plus(In(Whitespace)), Alt(<<Lit(<<"a">>), Lit(<<"a", "n">>)>>), Plus(In(Whitespace)), Alt(<<Lit(<<"p", "o", "r", "t", "f", "o", "l", "i", "o">>), Lit(<<"p", "l", "a", "n">>)>>), WB>>)
    >>

TIMING_PATTERNS ==
    <<
      \* r"\bwhen\s+should\s+i\s+(buy|sell)\b"
      Cat(<<WB, Lit(<<"w", "h", "e", "n">>), Plus(In(Whitespace)), Lit(<<"s", "h", "o", "u", "l", "d">>), Plus(In(Whitespace)), Lit(<<"i">>), Plus(In(Whitespace)), Alt(<<Lit(<<"b", "u", "y">>), Lit(<<"s", "e", "l", "l">>)>>), WB>>),
      \* r"\btime\s+the\s+market\b"
      Cat(<<WB, Lit(<<"t", "i", "m", "e">>), Plus(In(Whitespace)), Lit(<<"t", "h", "e">>), Plus(In(Whitespace)), Lit(<<"m", "a", "r", "k", "e", "t">>), WB>>),
      \* r"\bshould\s+i\s+sell\s+now\b"
      Cat(<<WB, Lit(<<"s", "h", "o", "u", "l", "d">>), Plus(In(Whitespace)), Lit(<<"i">>), Plus(In(Whitespace)), Lit(<<"s", "e", "l", "l">>), Plus(In(Whitespace)), Lit(<<"n", "o", "w">>), WB>>)
    >>

\* r"\b[A-Z]{1,5}\b"
TICKER_LIKE ==
    Cat(<<WB, Rep(In(UpperLetters), 1, 5), WB>>)

\* the patterns _sanitize_rewrite substitutes
\* r"\$?\d[\d,]*(\.\d+)?"
AMOUNT_RE ==
    Cat(<<Opt(Lit(<<"$">>)), In(Digits), Star(In(Digits \cup {","})), Opt(Cat(<<Lit(<<".">>), Plus(In(Digits))>>))>>)

\* r"\b(buy|sell)\b"
BUY_SELL_RE ==
    Cat(<<WB, Alt(<<Lit(<<"b", "u", "y">>), Lit(<<"s", "e", "l", "l">>)>>), WB>>)

\* '[amount]'
AMOUNT_TOKEN ==
    <<"[", "a", "m", "o", "u", "n", "t", "]">>

\* '[asset]'
ASSET_TOKEN ==
    <<"[", "a", "s", "s", "e", "t", "]">>

\* 'trade'
TRADE_WORD ==
    <<"t", "r", "a", "d", "e">>

\* The three reframings of _safe_rewrite_for_advice.
\* "What are the common factors and risks people consider when deciding whether to hold or sell an investment, and why is market timing difficult in general?"
TIMING_REWRITE ==
    <<"W", "h", "a", "t", " ", "a", "r", "e", " ", "t", "h", "e">> \o
    <<" ", "c", "o", "m", "m", "o", "n", " ", "f", "a", "c", "t">> \o
    <<"o", "r", "s", " ", "a", "n", "d", " ", "r", "i", "s", "k">> \o
    <<"s", " ", "p", "e", "o", "p", "l", "e", " ", "c", "o", "n">> \o
    <<"s", "i", "d", "e", "r", " ", "w", "h", "e", "n", " ", "d">> \o
    <<"e", "c", "i", "d", "i", "n", "g", " ", "w", "h", "e", "t">> \o
    <<"h", "e", "r", " ", "t", "o", " ", "h", "o", "l", "d", " ">> \o
    <<"o", "r", " ", "s", "e", "l", "l", " ", "a", "n", " ", "i">> \o
    <<"n", "v", "e", "s", "t", "m", "e", "n", "t", ",", " ", "a">> \o
    <<"n", "d", " ", "w", "h", "y", " ", "i", "s", " ", "m", "a">> \o
    <<"r", "k", "e", "t", " ", "t", "i", "m", "i", "n", "g", " ">> \o
    <<"d", "i", "f", "f", "i", "c", "u", "l", "t", " ", "i", "n">> \o
    <<" ", "g", "e", "n", "e", "r", "a", "l", "?">>

\* "What are general frameworks people use to think about diversification, time horizon, liquidity needs, and risk tolerance when building a long-term investment plan (conceptually)?"
ALLOCATION_REWRITE ==
    <<"W", "h", "a", "t", " ", "a", "r", "e", " ", "g", "e", "n">> \o
    <<"e", "r", "a", "l", " ", "f", "r", "a", "m", "e", "w", "o">> \o
    <<"r", "k", "s", " ", "p", "e", "o", "p", "l", "e", " ", "u">> \o
    <<"s", "e", " ", "t", "o", " ", "t", "h", "i", "n", "k", " ">> \o
    <<"a", "b", "o", "u", "t", " ", "d", "i", "v", "e", "r", "s">> \o
    <<"i", "f", "i", "c", "a", "t", "i", "o", "n", ",", " ", "t">> \o
    <<"i", "m", "e", " ", "h", "o", "r", "i", "z", "o", "n", ",">> \o
    <<" ", "l", "i", "q", "u", "i", "d", "i", "t", "y", " ", "n">> \o
    <<"e", "e", "d", "s", ",", " ", "a", "n", "d", " ", "r", "i">> \o
    <<"s", "k", " ", "t", "o", "l", "e", "r", "a", "n", "c", "e">> \o
    <<" ", "w", "h", "e", "n", " ", "b", "u", "i", "l", "d", "i">> \o
    <<"n", "g", " ", "a", " ", "l", "o", "n", "g", "-", "t", "e">> \o
    <<"r", "m", " ", "i", "n", "v", "e", "s", "t", "m", "e", "n">> \o
    <<"t", " ", "p", "l", "a", "n", " ", "(", "c", "o", "n", "c">> \o
    <<"e", "p", "t", "u", "a", "l", "l", "y", ")", "?">>

\* "What are general frameworks to evaluate investment options based on goals, time horizon, and risk tolerance, and what tradeoffs typically matter?"
DEFAULT_REWRITE ==
    <<"W", "h", "a", "t", " ", "a", "r", "e", " ", "g", "e", "n">> \o
    <<"e", "r", "a", "l", " ", "f", "r", "a", "m", "e", "w", "o">> \o
    <<"r", "k", "s", " ", "t", "o", " ", "e", "v", "a", "l", "u">> \o
    <<"a", "t", "e", " ", "i", "n", "v", "e", "s", "t", "m", "e">> \o
    <<"n", "t", " ", "o", "p", "t", "i", "o", "n", "s", " ", "b">> \o
    <<"a", "s", "e", "d", " ", "o", "n", " ", "g", "o", "a", "l">> \o
    <<"s", ",", " ", "t", "i", "m", "e", " ", "h", "o", "r", "i">> \o
    <<"z", "o", "n", ",", " ", "a", "n", "d", " ", "r", "i", "s">> \o
    <<"k", " ", "t", "o", "l", "e", "r", "a", "n", "c", "e", ",">> \o
    <<" ", "a", "n", "d", " ", "w", "h", "a", "t", " ", "t", "r">> \o
    <<"a", "d", "e", "o", "f", "f", "s", " ", "t", "y", "p", "i">> \o
    <<"c", "a", "l", "l", "y", " ", "m", "a", "t", "t", "e", "r">> \o
    <<"?">>

\* Optional[str]: None, or a str
NoneValue == [isNone |-> TRUE, s |-> <<>>]
Str(s) == [isNone |-> FALSE, s |-> s]

\* PolicyDecision(action, reason, rewrite)
PolicyDecision(action, reason, rewrite) ==
    [action |-> action, reason |-> reason, rewrite |-> rewrite]

\* _matches_any: any(re.search(p, text, flags=re.IGNORECASE) for p in patterns)
MatchesAny(patterns, text) ==
    \E k \in 1..Len(patterns) : Search(patterns[k], text, TRUE)

\* _safe_rewrite_for_advice
SafeRewriteForAdvice(original) ==
    LET t == Lower(Strip(original))
    IN  IF MatchesAny(TIMING_PATTERNS, t) THEN TIMING_REWRITE
        ELSE IF MatchesAny(ALLOCATION_PATTERNS, t) THEN ALLOCATION_REWRITE
        ELSE DEFAULT_REWRITE

\* _sanitize_rewrite in another order: tickers before amounts
SanitizeTickersFirst(rewrite) ==
    LET out1 == Sub(TICKER_LIKE, ASSET_TOKEN, rewrite, FALSE)
        out2 == Sub(AMOUNT_RE, AMOUNT_TOKEN, out1, FALSE)
        out3 == Sub(BUY_SELL_RE, TRADE_WORD, out2, TRUE)
    IN  Strip(out3)

\* _sanitize_rewrite without its last substitution
SanitizeKeepVerbs(rewrite) ==
    LET out1 == Sub(AMOUNT_RE, AMOUNT_TOKEN, rewrite, FALSE)
        out2 == Sub(TICKER_LIKE, ASSET_TOKEN, out1, FALSE)
    IN  Strip(out2)

\* _sanitize_rewrite
SanitizeRewrite(rewrite) ==
    LET out1 == Sub(AMOUNT_RE, AMOUNT_TOKEN, rewrite, FALSE)
        out2 == Sub(TICKER_LIKE, ASSET_TOKEN, out1, FALSE)
        out3 == Sub(BUY_SELL_RE, TRADE_WORD, out2, TRUE)
    IN  Strip(out3)

\* (user_text or ""), without the or
OrEmptyForgotten(v) == v

\* (user_text or ""): None and "" are falsy
OrEmpty(v) == IF v.isNone \/ v.s = <<>> THEN Str(<<>>) ELSE v

\* a REFUSE that carries a rewrite
RefuseDecisionWithRewrite(text) ==
    PolicyDecision(REFUSE, REASON_ILLEGAL_FINANCIAL,
                   Str(SanitizeRewrite(SafeRewriteForAdvice(text))))

\* the REFUSE branch of route
RefuseDecision(text) == PolicyDecision(REFUSE, REASON_ILLEGAL_FINANCIAL, NoneValue)

\* a TRANSFORM branch of route
TransformDecision(reason, text) ==
    PolicyDecision(TRANSFORM, reason, Str(SanitizeRewrite(SafeRewriteForAdvice(text))))

\* the ALLOW branches of route
AllowDecision == PolicyDecision(ALLOW, REASON_GENERAL_EDU, NoneValue)

\* route's cascade with the advice group tested before the illegal one
CascadeAdviceFirst(text) ==
    IF text = <<>> THEN AllowDecision
    ELSE IF MatchesAny(ADVICE_PATTERNS, text)
         THEN TransformDecision(REASON_ASSET_RECOMMENDATION, text)
    ELSE IF MatchesAny(ILLEGAL_PATTERNS, text) THEN RefuseDecision(text)
    ELSE IF MatchesAny(ALLOCATION_PATTERNS, text)
         THEN TransformDecision(REASON_PORTFOLIO_ALLOCATION, text)
    ELSE IF MatchesAny(TIMING_PATTERNS, text)
         THEN TransformDecision(REASON_TIMING_REQUEST, text)
    ELSE AllowDecision

\* route's cascade with the timing group tested before the allocation one
CascadeTimingBeforeAllocation(text) ==
    IF text = <<>> THEN AllowDecision
    ELSE IF MatchesAny(ILLEGAL_PATTERNS, text) THEN RefuseDecision(text)
    ELSE IF MatchesAny(ADVICE_PATTERNS, text)
         THEN TransformDecision(REASON_ASSET_RECOMMENDATION, text)
    ELSE IF MatchesAny(TIMING_PATTERNS, text)
         THEN TransformDecision(REASON_TIMING_REQUEST, text)
    ELSE IF MatchesAny(ALLOCATION_PATTERNS, text)
         THEN TransformDecision(REASON_PORTFOLIO_ALLOCATION, text)
    ELSE AllowDecision

\* route's cascade with a text that matches both the allocation and the
\* timing group tagged ambiguous
CascadeAmbiguousOverlap(text) ==
    IF text = <<>> THEN AllowDecision
    ELSE IF MatchesAny(ILLEGAL_PATTERNS, text) THEN RefuseDecision(text)
    ELSE IF MatchesAny(ADVICE_PATTERNS, text)
         THEN TransformDecision(REASON_ASSET_RECOMMENDATION, text)
    ELSE IF MatchesAny(ALLOCATION_PATTERNS, text) /\ MatchesAny(TIMING_PATTERNS, text)
         THEN TransformDecision(REASON_AMBIGUOUS, text)
    ELSE IF MatchesAny(ALLOCATION_PATTERNS, text)
         THEN TransformDecision(REASON_PORTFOLIO_ALLOCATION, text)
    ELSE IF MatchesAny(TIMING_PATTERNS, text)
         THEN TransformDecision(REASON_TIMING_REQUEST, text)
    ELSE AllowDecision

\* route, from the stripped text on
Cascade(text) ==
    IF text = <<>> THEN AllowDecision
    ELSE IF MatchesAny(ILLEGAL_PATTERNS, text) THEN RefuseDecision(text)
    ELSE IF MatchesAny(ADVICE_PATTERNS, text)
         THEN TransformDecision(REASON_ASSET_RECOMMENDATION, text)
    ELSE IF MatchesAny(ALLOCATION_PATTERNS, text)
         THEN TransformDecision(REASON_PORTFOLIO_ALLOCATION, text)
    ELSE IF MatchesAny(TIMING_PATTERNS, text)
         THEN TransformDecision(REASON_TIMING_REQUEST, text)
    ELSE AllowDecision

\* What a call leaves behind: the value it returned, or the exception it raised.
Returned(v) == [raised |-> "", value |-> v]
Raised(exc) == [raised |-> exc, value |-> NoneValue]
Pending == [raised |-> "pending", value |-> NoneValue]

\* route(user_text); .strip() of None raises AttributeError
Route(user_text) ==
    LET v == OrEmpty(user_text)
    IN  IF v.isNone THEN Raised("AttributeError")
        ELSE Returned(Cascade(Strip(v.s)))

----------------------------------------------------------------------------
(* domain/concepts/types.py: the closed vocabularies, each member by its   *)
(* value.                                                                  *)

CategoryValues ==
    { <<"b", "u", "d", "g", "e", "t", "i", "n", "g">>, <<"c", "r", "e", "d", "i", "t">>, <<"i", "n", "v", "e", "s", "t", "i", "n", "g">>, <<"t", "a", "x", "e", "s">>, <<"b", "a", "n", "k", "i", "n", "g">>, <<"i", "n", "s", "u", "r", "a", "n", "c", "e">>, <<"d", "e", "b", "t">> }

DifficultyValues == { <<"b", "e", "g", "i", "n", "n", "e", "r">>, <<"i", "n", "t", "e", "r", "m", "e", "d", "i", "a", "t", "e">>, <<"a", "d", "v", "a", "n", "c", "e", "d">> }

EDUCATIONAL_EXPLANATION == <<"e", "d", "u", "c", "a", "t", "i", "o", "n", "a", "l", "_", "e", "x", "p", "l", "a", "n", "a", "t", "i", "o", "n">>
DEFINITION_LOOKUP == <<"d", "e", "f", "i", "n", "i", "t", "i", "o", "n", "_", "l", "o", "o", "k", "u", "p">>
PERSONAL_ADVICE == <<"p", "e", "r", "s", "o", "n", "a", "l", "_", "a", "d", "v", "i", "c", "e">>
SCORE_OPTIMIZATION == <<"s", "c", "o", "r", "e", "_", "o", "p", "t", "i", "m", "i", "z", "a", "t", "i", "o", "n">>
PRODUCT_RECOMMENDATION == <<"p", "r", "o", "d", "u", "c", "t", "_", "r", "e", "c", "o", "m", "m", "e", "n", "d", "a", "t", "i", "o", "n">>

IntentValues ==
    { EDUCATIONAL_EXPLANATION, DEFINITION_LOOKUP, PERSONAL_ADVICE,
      SCORE_OPTIMIZATION, PRODUCT_RECOMMENDATION }

\* the Intent values as sorted(..., key=lambda x: x.value) orders them
IntentsByValue ==
    << DEFINITION_LOOKUP, EDUCATIONAL_EXPLANATION, PERSONAL_ADVICE,
       PRODUCT_RECOMMENDATION, SCORE_OPTIMIZATION >>

----------------------------------------------------------------------------
(* domain/concepts/validator.py                                            *)
(*                                                                         *)
(* A raw value (what YAML decodes to) is [t, v]: a str (v its characters), *)
(* a list (v its items), a dict (v a function on its keys), None, or some  *)
(* other scalar.                                                           *)

StrV(s) == [t |-> "str", v |-> s]
ListV(items) == [t |-> "list", v |-> items]
DictV(f) == [t |-> "dict", v |-> f]
NoneV == [t |-> "none", v |-> <<>>]
IntV == [t |-> "int", v |-> <<>>]

\* d.get(key)
Get(d, key) == IF key \in DOMAIN d.v THEN d.v[key] ELSE NoneV

\* r"<[^>]+>"
PLACEHOLDER_RE ==
    Cat(<<Lit(<<"<">>), Plus(NotIn({">"})), Lit(<<">">>)>>)

\* r"\b(you|your|yours|yourself)\b", IGNORECASE
SECOND_PERSON_RE ==
    Cat(<<WB, Alt(<<Lit(<<"y", "o", "u">>), Lit(<<"y", "o", "u", "r">>), Lit(<<"y", "o", "u", "r", "s">>), Lit(<<"y", "o", "u", "r", "s", "e", "l", "f">>)>>), WB>>)

\* r"\d{4}-\d{2}-\d{2}"
DATE_RE ==
    Cat(<<Rep(In(Digits), 4, 4), Lit(<<"-">>), Rep(In(Digits), 2, 2), Lit(<<"-">>), Rep(In(Digits), 2, 2)>>)

\* r"[a-z][a-z0-9_]*"
ID_RE ==
    Cat(<<In(LowerLetters), Star(In(LowerLetters \cup Digits \cup {"_"}))>>)

MISSING_ID == <<"<", "m", "i", "s", "s", "i", "n", "g", "-", "i", "d", ">">>

\* the advice-blocking stems _education_only_heuristics looks for
ADVICE_TERMS == { <<"a", "d", "v", "i", "c", "e">>, <<"r", "e", "c", "o", "m", "m", "e", "n", "d">>, <<"o", "p", "t", "i", "m", "i", "z">>, <<"p", "e", "r", "s", "o", "n", "a", "l">>, <<"p", "r", "o", "d", "u", "c", "t">> }

HasPlaceholder(s) == Search(PLACEHOLDER_RE, s, FALSE)

\* isinstance(v, str) and v.strip()
IsNonBlankStr(v) == v.t = "str" /\ Strip(v.v) # <<>>

\* The field path of an error: key, key[idx], key[idx].attr
Field(key) == [key |-> key, idx |-> <<>>, attr |-> ""]
FieldAt(key, i) == [key |-> key, idx |-> <<i>>, attr |-> ""]
FieldAttr(key, i, attr) == [key |-> key, idx |-> <<i>>, attr |-> attr]

MSG_MISSING == "missing required field"
MSG_NONEMPTY == "must be a non-empty string"
MSG_PLACEHOLDER == "contains placeholder text like <...>"

\* What a helper leaves behind: the value it returned, or the
\* ConceptValidationError that _raise raised
Ok(val) == [ok |-> TRUE, val |-> val]
RaiseError(card_id, field, msg, detail) ==
    [ok |-> FALSE,
     err |-> [prefixed |-> TRUE, card_id |-> card_id, field |-> field,
              msg |-> msg, detail |-> detail]]

\* _card_id_for_errors
CardIdForErrors(raw) ==
    LET cid == Get(raw, "id")
    IN  IF IsNonBlankStr(cid) THEN cid.v ELSE MISSING_ID

\* _require_key
RequireKey(raw, card_id, key) ==
    IF key \notin DOMAIN raw.v
    THEN RaiseError(card_id, Field(key), MSG_MISSING, <<>>)
    ELSE Ok(raw.v[key])

\* _require_str
RequireStr(raw, card_id, key) ==
    LET r == RequireKey(raw, card_id, key)
    IN  IF ~r.ok THEN r
        ELSE IF ~IsNonBlankStr(r.val)
             THEN RaiseError(card_id, Field(key), MSG_NONEMPTY, <<>>)
        ELSE IF HasPlaceholder(r.val.v)
             THEN RaiseError(card_id, Field(key), MSG_PLACEHOLDER, <<>>)
        ELSE Ok(Strip(r.val.v))

\* That loop without its placeholder test
CleanStringsKeepPlaceholders(items, card_id, key) ==
    LET bad == {k \in 1..Len(items) : ~IsNonBlankStr(items[k])}
    IN  IF bad # {}
        THEN RaiseError(card_id, FieldAt(key, (CHOOSE k \in bad : \A j \in bad : k <= j) - 1),
                        MSG_NONEMPTY, <<>>)
        ELSE Ok([k \in 1..Len(items) |-> Strip(items[k].v)])

\* The loop over a list of would-be strings that _require_list_of_str and
\* _require_metadata share: the first item that is no non-empty string or
\* holds a placeholder raises; otherwise the stripped items.
CleanStrings(items, card_id, key) ==
    LET bad == {k \in 1..Len(items) :
                    ~IsNonBlankStr(items[k]) \/ HasPlaceholder(items[k].v)}
    IN  IF bad # {}
        THEN LET k == CHOOSE k \in bad : \A j \in bad : k <= j
             IN  IF ~IsNonBlankStr(items[k])
                 THEN RaiseError(card_id, FieldAt(key, k - 1), MSG_NONEMPTY, <<>>)
                 ELSE RaiseError(card_id, FieldAt(key, k - 1), MSG_PLACEHOLDER, <<>>)
        ELSE Ok([k \in 1..Len(items) |-> Strip(items[k].v)])

\* _require_list_of_str without its length test
RequireListOfStrAnyLength(raw, card_id, key, min_len) ==
    LET r == RequireKey(raw, card_id, key)
    IN  IF ~r.ok THEN r
        ELSE IF r.val.t # "list"
             THEN RaiseError(card_id, Field(key), "must be a list of strings", <<>>)
        ELSE CleanStrings(r.val.v, card_id, key)

\* _require_list_of_str
RequireListOfStr(raw, card_id, key, min_len) ==
    LET r == RequireKey(raw, card_id, key)
    IN  IF ~r.ok THEN r
        ELSE IF r.val.t # "list"
             THEN RaiseError(card_id, Field(key), "must be a list of strings", <<>>)
        ELSE LET out == CleanStrings(r.val.v, card_id, key)
             IN  IF ~out.ok THEN out
                 ELSE IF Len(out.val) < min_len
                      THEN RaiseError(card_id, Field(key), "must contain at least {min_len} item(s)", <<min_len>>)
                 ELSE out

\* _to_enum
ToEnum(card_id, field, enum_values, value) ==
    IF value \in enum_values THEN Ok(value)
    ELSE RaiseError(card_id, field, "invalid value", <<value>>)

\* _require_enum
RequireEnum(raw, card_id, key, enum_values) ==
    LET s == RequireStr(raw, card_id, key)
    IN  IF ~s.ok THEN s ELSE ToEnum(card_id, Field(key), enum_values, s.val)

\* One pass of the loop of _require_examples over item k
ExampleCheck(ex, card_id, i) ==
    IF ex.t # "dict"
    THEN RaiseError(card_id, FieldAt("examples", i), "must be a mapping with scenario/explanation", <<>>)
    ELSE LET scenario == Get(ex, "scenario")
             explanation == Get(ex, "explanation")
         IN  IF ~IsNonBlankStr(scenario)
             THEN RaiseError(card_id, FieldAttr("examples", i, "scenario"), MSG_NONEMPTY, <<>>)
             ELSE IF ~IsNonBlankStr(explanation)
             THEN RaiseError(card_id, FieldAttr("examples", i, "explanation"), MSG_NONEMPTY, <<>>)
             ELSE IF HasPlaceholder(scenario.v)
             THEN RaiseError(card_id, FieldAttr("examples", i, "scenario"), MSG_PLACEHOLDER, <<>>)
             ELSE IF HasPlaceholder(explanation.v)
             THEN RaiseError(card_id, FieldAttr("examples", i, "explanation"), MSG_PLACEHOLDER, <<>>)
             ELSE Ok([scenario |-> Strip(scenario.v), explanation |-> Strip(explanation.v)])

\* The first failure among checks, a sequence of helper results, or all
\* their values: a loop that raises at its first bad item
FirstFailure(checks) ==
    LET bad == {k \in 1..Len(checks) : ~checks[k].ok}
    IN  IF bad # {} THEN checks[CHOOSE k \in bad : \A j \in bad : k <= j]
        ELSE Ok([k \in 1..Len(checks) |-> checks[k].val])

\* _require_examples
RequireExamples(raw, card_id) ==
    LET r == RequireKey(raw, card_id, "examples")
    IN  IF ~r.ok THEN r
        ELSE IF r.val.t # "list"
             THEN RaiseError(card_id, Field("examples"), "must be a list of example objects", <<>>)
        ELSE FirstFailure([k \in 1..Len(r.val.v) |-> ExampleCheck(r.val.v[k], card_id, k - 1)])

\* isinstance(v, list) and all(isinstance(x, str) for x in v)
IsListOfStr(v) == v.t = "list" /\ \A k \in 1..Len(v.v) : v.v[k].t = "str"

\* One pass of either loop of _require_safety: item s of the list at key
IntentCheck(s, card_id, key, i) ==
    LET s2 == Strip(s.v)
    IN  IF s2 = <<>> THEN RaiseError(card_id, FieldAt(key, i), MSG_NONEMPTY, <<>>)
        ELSE IF HasPlaceholder(s2)
             THEN RaiseError(card_id, FieldAt(key, i), MSG_PLACEHOLDER, <<>>)
        ELSE ToEnum(card_id, FieldAt(key, i), IntentValues, s2)

Range(seq) == {seq[k] : k \in 1..Len(seq)}

\* sorted(intents, key=lambda x: x.value)
SortedIntents(intents) == SelectSeq(IntentsByValue, LAMBDA x : x \in intents)

\* the intents every card must forbid
MustForbid == {PERSONAL_ADVICE, PRODUCT_RECOMMENDATION}

\* That end, asking for one of the baseline intents where it takes both
SafetyRequirementsAnyOne(allowed, forbidden, card_id) ==
    LET overlap == Range(allowed) \cap Range(forbidden)
    IN  IF MustForbid \cap Range(forbidden) = {}
        THEN RaiseError(card_id, Field("safety.forbidden_intents"), "must include", SortedIntents(MustForbid))
        ELSE IF overlap # {}
        THEN RaiseError(card_id, Field("safety"), "allowed_intents and forbidden_intents overlap", SortedIntents(overlap))
        ELSE Ok([allowed |-> allowed, forbidden |-> forbidden])

\* The end of _require_safety: the baseline and the overlap check
SafetyRequirements(allowed, forbidden, card_id) ==
    LET missing == MustForbid \ Range(forbidden)
        overlap == Range(allowed) \cap Range(forbidden)
    IN  IF missing # {}
        THEN RaiseError(card_id, Field("safety.forbidden_intents"), "must include", SortedIntents(missing))
        ELSE IF overlap # {}
        THEN RaiseError(card_id, Field("safety"), "allowed_intents and forbidden_intents overlap", SortedIntents(overlap))
        ELSE Ok([allowed |-> allowed, forbidden |-> forbidden])

\* _require_safety
RequireSafety(raw, card_id) ==
    LET r == RequireKey(raw, card_id, "safety")
    IN  IF ~r.ok THEN r
        ELSE IF r.val.t # "dict"
             THEN RaiseError(card_id, Field("safety"), "must be a mapping with allowed_intents/forbidden_intents", <<>>)
        ELSE LET allowed_raw == Get(r.val, "allowed_intents")
                 forbidden_raw == Get(r.val, "forbidden_intents")
             IN  IF ~IsListOfStr(allowed_raw)
                 THEN RaiseError(card_id, Field("safety.allowed_intents"), "must be a list of strings", <<>>)
                 ELSE IF ~IsListOfStr(forbidden_raw)
                 THEN RaiseError(card_id, Field("safety.forbidden_intents"), "must be a list of strings", <<>>)
                 ELSE LET allowed == FirstFailure([k \in 1..Len(allowed_raw.v) |->
                                        IntentCheck(allowed_raw.v[k], card_id, "safety.allowed_intents", k - 1)])
                          forbidden == FirstFailure([k \in 1..Len(forbidden_raw.v) |->
                                        IntentCheck(forbidden_raw.v[k], card_id, "safety.forbidden_intents", k - 1)])
                      IN  IF ~allowed.ok THEN allowed
                          ELSE IF ~forbidden.ok THEN forbidden
                          ELSE SafetyRequirements(allowed.val, forbidden.val, card_id)

\* _require_metadata
RequireMetadata(raw, card_id) ==
    LET r == RequireKey(raw, card_id, "metadata")
    IN  IF ~r.ok THEN r
        ELSE IF r.val.t # "dict"
             THEN RaiseError(card_id, Field("metadata"), "must be a mapping with sources/last_updated", <<>>)
        ELSE LET sources == Get(r.val, "sources")
                 last_updated == Get(r.val, "last_updated")
             IN  IF sources.t # "list" \/ sources.v = <<>>
                 THEN RaiseError(card_id, Field("metadata.sources"), "must be a non-empty list of strings", <<>>)
                 ELSE LET clean_sources == CleanStrings(sources.v, card_id, "metadata.sources")
                      IN  IF ~clean_sources.ok THEN clean_sources
                          ELSE IF ~IsNonBlankStr(last_updated)
                          THEN RaiseError(card_id, Field("metadata.last_updated"), "must be a non-empty string in YYYY-MM-DD format", <<>>)
                          ELSE IF HasPlaceholder(Strip(last_updated.v))
                          THEN RaiseError(card_id, Field("metadata.last_updated"), MSG_PLACEHOLDER, <<>>)
                          ELSE IF ~FullMatch(DATE_RE, Strip(last_updated.v), FALSE)
                          THEN RaiseError(card_id, Field("metadata.last_updated"), "must match YYYY-MM-DD", <<>>)
                          ELSE Ok([sources |-> clean_sources.val, last_updated |-> Strip(last_updated.v)])

RECURSIVE JoinWithSpace(_)
\* " ".join(strs)
JoinWithSpace(strs) ==
    IF strs = <<>> THEN <<>>
    ELSE IF Len(strs) = 1 THEN strs[1]
    ELSE strs[1] \o <<" ">> \o JoinWithSpace(Tail(strs))

\* The order in which raw.items() gives the keys of a record: the order of
\* the file, the schema's fields first
KeyOrder ==
    << "id", "title", "category", "difficulty", "summary", "core_mechanics",
       "examples", "misconceptions", "non_goals", "safety", "metadata", "notes", "tags" >>

\* The last loop of _education_only_heuristics, over top-level strings only
TopLevelSweep(card_id, raw) ==
    LET bad == SelectSeq(KeyOrder, LAMBDA key :
                    /\ key \in DOMAIN raw.v
                    /\ raw.v[key].t = "str"
                    /\ HasPlaceholder(raw.v[key].v))
    IN  IF bad # <<>> THEN RaiseError(card_id, Field(Head(bad)), MSG_PLACEHOLDER, <<>>)
        ELSE Ok(NoneV)

\* _education_only_heuristics
EducationOnlyHeuristics(card_id, raw) ==
    LET summary_list == IF "summary" \in DOMAIN raw.v THEN raw.v["summary"] ELSE ListV(<<>>)
        second == IF summary_list.t # "list" THEN {}
                  ELSE {k \in 1..Len(summary_list.v) :
                            /\ summary_list.v[k].t = "str"
                            /\ Search(SECOND_PERSON_RE, summary_list.v[k].v, TRUE)}
        non_goals == Get(raw, "non_goals")
        joined == IF non_goals.t # "list" THEN <<>>
                  ELSE Lower(JoinWithSpace(
                         [k \in 1..Len(SelectSeq(non_goals.v, LAMBDA x : x.t = "str")) |->
                            SelectSeq(non_goals.v, LAMBDA x : x.t = "str")[k].v]))
    IN  IF second # {}
        THEN RaiseError(card_id, FieldAt("summary", (CHOOSE k \in second : \A j \in second : k <= j) - 1),
                        "should avoid second-person phrasing (you/your)", <<>>)
        ELSE IF non_goals.t = "list" /\ ~\E term \in ADVICE_TERMS : Contains(joined, term)
        THEN RaiseError(card_id, Field("non_goals"), "must explicitly block advice/recommendation/optimization scope", <<>>)
        ELSE TopLevelSweep(card_id, raw)

\* What validate_conceptcard leaves behind
ReturnedCard(card) == [raised |-> "", card |-> card, err |-> NoneV]
RaisedValidation(err) == [raised |-> "ConceptValidationError", card |-> NoneV, err |-> err]
NotValidated == [raised |-> "pending", card |-> NoneV, err |-> NoneV]

\* Those statements with metadata read before safety
StepsMetadataFirst(raw, card_id) ==
    << [var |-> "cid", r |-> RequireStr(raw, card_id, "id")],
       [var |-> "title", r |-> RequireStr(raw, card_id, "title")],
       [var |-> "category", r |-> RequireEnum(raw, card_id, "category", CategoryValues)],
       [var |-> "difficulty", r |-> RequireEnum(raw, card_id, "difficulty", DifficultyValues)],
       [var |-> "summary", r |-> RequireListOfStr(raw, card_id, "summary", 1)],
       [var |-> "core_mechanics", r |-> RequireListOfStr(raw, card_id, "core_mechanics", 1)],
       [var |-> "misconceptions", r |-> RequireListOfStr(raw, card_id, "misconceptions", 1)],
       [var |-> "non_goals", r |-> RequireListOfStr(raw, card_id, "non_goals", 1)],
       [var |-> "examples", r |-> RequireExamples(raw, card_id)],
       [var |-> "metadata", r |-> RequireMetadata(raw, card_id)],
       [var |-> "safety", r |-> RequireSafety(raw, card_id)],
       [var |-> "heuristics", r |-> EducationOnlyHeuristics(card_id, raw)] >>

\* Those statements with non_goals read after metadata
StepsNonGoalsLast(raw, card_id) ==
    << [var |-> "cid", r |-> RequireStr(raw, card_id, "id")],
       [var |-> "title", r |-> RequireStr(raw, card_id, "title")],
       [var |-> "category", r |-> RequireEnum(raw, card_id, "category", CategoryValues)],
       [var |-> "difficulty", r |-> RequireEnum(raw, card_id, "difficulty", DifficultyValues)],
       [var |-> "summary", r |-> RequireListOfStr(raw, card_id, "summary", 1)],
       [var |-> "core_mechanics", r |-> RequireListOfStr(raw, card_id, "core_mechanics", 1)],
       [var |-> "misconceptions", r |-> RequireListOfStr(raw, card_id, "misconceptions", 1)],
       [var |-> "examples", r |-> RequireExamples(raw, card_id)],
       [var |-> "safety", r |-> RequireSafety(raw, card_id)],
       [var |-> "metadata", r |-> RequireMetadata(raw, card_id)],
       [var |-> "non_goals", r |-> RequireListOfStr(raw, card_id, "non_goals", 1)],
       [var |-> "heuristics", r |-> EducationOnlyHeuristics(card_id, raw)] >>

\* The statements of validate_conceptcard that read raw, in the order it
\* runs them: the variable each assigns, and what the call returns or raises
ValidationSteps(raw, card_id) ==
    << [var |-> "cid", r |-> RequireStr(raw, card_id, "id")],
       [var |-> "title", r |-> RequireStr(raw, card_id, "title")],
       [var |-> "category", r |-> RequireEnum(raw, card_id, "category", CategoryValues)],
       [var |-> "difficulty", r |-> RequireEnum(raw, card_id, "difficulty", DifficultyValues)],
       [var |-> "summary", r |-> RequireListOfStr(raw, card_id, "summary", 1)],
       [var |-> "core_mechanics", r |-> RequireListOfStr(raw, card_id, "core_mechanics", 1)],
       [var |-> "misconceptions", r |-> RequireListOfStr(raw, card_id, "misconceptions", 1)],
       [var |-> "non_goals", r |-> RequireListOfStr(raw, card_id, "non_goals", 1)],
       [var |-> "examples", r |-> RequireExamples(raw, card_id)],
       [var |-> "safety", r |-> RequireSafety(raw, card_id)],
       [var |-> "metadata", r |-> RequireMetadata(raw, card_id)],
       [var |-> "heuristics", r |-> EducationOnlyHeuristics(card_id, raw)] >>

\* the value the statement that assigns var returned
ValueOf(steps, var) == steps[CHOOSE k \in 1..Len(steps) : steps[k].var = var].r.val

\* That end with misconceptions and non_goals passed to each other's
\* keyword
ConcludeSwapped(card_id, steps) ==
    IF \E k \in 1..Len(steps) : ~steps[k].r.ok
    THEN RaisedValidation(steps[CHOOSE k \in 1..Len(steps) :
                                    /\ ~steps[k].r.ok
                                    /\ \A j \in 1..(k - 1) : steps[j].r.ok].r.err)
    ELSE IF ~FullMatch(ID_RE, ValueOf(steps, "cid"), FALSE)
    THEN RaisedValidation(RaiseError(card_id, Field("id"),
            "must be snake_case (lowercase letters, digits, underscores)", <<>>).err)
    ELSE ReturnedCard(
            [id |-> ValueOf(steps, "cid"),
             title |-> ValueOf(steps, "title"),
             category |-> ValueOf(steps, "category"),
             difficulty |-> ValueOf(steps, "difficulty"),
             summary |-> ValueOf(steps, "summary"),
             core_mechanics |-> ValueOf(steps, "core_mechanics"),
             examples |-> ValueOf(steps, "examples"),
             misconceptions |-> ValueOf(steps, "non_goals"),
             non_goals |-> ValueOf(steps, "misconceptions"),
             allowed_intents |-> ValueOf(steps, "safety").allowed,
             forbidden_intents |-> ValueOf(steps, "safety").forbidden,
             sources |-> ValueOf(steps, "metadata").sources,
             last_updated |-> ValueOf(steps, "metadata").last_updated])

\* The end of validate_conceptcard, given what its statements returned or
\* raised: the first that raised ends it; then the id pattern; then the card
Conclude(card_id, steps) ==
    IF \E k \in 1..Len(steps) : ~steps[k].r.ok
    THEN RaisedValidation(steps[CHOOSE k \in 1..Len(steps) :
                                    /\ ~steps[k].r.ok
                                    /\ \A j \in 1..(k - 1) : steps[j].r.ok].r.err)
    ELSE IF ~FullMatch(ID_RE, ValueOf(steps, "cid"), FALSE)
    THEN RaisedValidation(RaiseError(card_id, Field("id"),
            "must be snake_case (lowercase letters, digits, underscores)", <<>>).err)
    ELSE ReturnedCard(
            [id |-> ValueOf(steps, "cid"),
             title |-> ValueOf(steps, "title"),
             category |-> ValueOf(steps, "category"),
             difficulty |-> ValueOf(steps, "difficulty"),
             summary |-> ValueOf(steps, "summary"),
             core_mechanics |-> ValueOf(steps, "core_mechanics"),
             examples |-> ValueOf(steps, "examples"),
             misconceptions |-> ValueOf(steps, "misconceptions"),
             non_goals |-> ValueOf(steps, "non_goals"),
             allowed_intents |-> ValueOf(steps, "safety").allowed,
             forbidden_intents |-> ValueOf(steps, "safety").forbidden,
             sources |-> ValueOf(steps, "metadata").sources,
             last_updated |-> ValueOf(steps, "metadata").last_updated])

\* validate_conceptcard
ValidateConceptCard(raw) ==
    IF raw.t # "dict"
    THEN RaisedValidation([prefixed |-> FALSE, card_id |-> <<>>, field |-> Field(""),
                           msg |-> "ConceptCard raw value must be a dict", detail |-> <<>>])
    ELSE Conclude(CardIdForErrors(raw), ValidationSteps(raw, CardIdForErrors(raw)))

\* What validate_all_conceptcards leaves behind
ReturnedCards(cards) == [raised |-> "", cards |-> cards, err |-> NoneV]
RaisedInBatch(err) == [raised |-> "ConceptValidationError", cards |-> NoneV, err |-> err]
NotValidatedAll == [raised |-> "pending", cards |-> NoneV, err |-> NoneV]

\* ConceptValidationError(f"Duplicate ConceptCard id detected: {card.id}")
DuplicateError(id) ==
    [prefixed |-> FALSE, card_id |-> id, field |-> Field(""),
     msg |-> "Duplicate ConceptCard id detected", detail |-> <<id>>]

\* The locals of validate_all_conceptcards while its loop runs, and the
\* exception that ended it
Looping(cards, seen_ids) ==
    [raised |-> "", cards |-> cards, seen_ids |-> seen_ids, err |-> NoneV]
LoopRaised(err) ==
    [raised |-> "ConceptValidationError", cards |-> NoneV, seen_ids |-> {}, err |-> err]

\* That pass without seen_ids.add(card.id)
TakeCardForgetful(result, st) ==
    IF result.raised # "" THEN LoopRaised(result.err)
    ELSE IF result.card.id \in st.seen_ids THEN LoopRaised(DuplicateError(result.card.id))
    ELSE Looping(Append(st.cards, result.card), st.seen_ids)

\* One pass of the loop, given what validate_conceptcard(raw) left behind
TakeCard(result, st) ==
    IF result.raised # "" THEN LoopRaised(result.err)
    ELSE IF result.card.id \in st.seen_ids THEN LoopRaised(DuplicateError(result.card.id))
    ELSE Looping(Append(st.cards, result.card), st.seen_ids \cup {result.card.id})

RECURSIVE ValidateFrom(_, _, _)
\* The loop of validate_all_conceptcards from record k on
ValidateFrom(raw_cards, k, st) ==
    IF k > Len(raw_cards) \/ st.raised # "" THEN st
    ELSE ValidateFrom(raw_cards, k + 1, TakeCard(ValidateConceptCard(raw_cards[k]), st))

\* what the caller sees of the loop's end
BatchOutcome(st) ==
    IF st.raised # "" THEN RaisedInBatch(st.err) ELSE ReturnedCards(st.cards)

\* The first record that does not validate, if any, raises; only then are
\* the ids compared
DedupeAfter(results) ==
    IF \E k \in 1..Len(results) : results[k].raised # ""
    THEN RaisedInBatch(results[CHOOSE k \in 1..Len(results) :
                                    /\ results[k].raised # ""
                                    /\ \A j \in 1..(k - 1) : results[j].raised = ""].err)
    ELSE IF \E k \in 1..Len(results) : \E j \in 1..(k - 1) : results[j].card.id = results[k].card.id
    THEN RaisedInBatch(DuplicateError(
            results[CHOOSE k \in 1..Len(results) :
                        /\ \E j \in 1..(k - 1) : results[j].card.id = results[k].card.id
                        /\ \A i \in 1..(k - 1) : \A j \in 1..(i - 1) :
                                results[j].card.id # results[i].card.id].card.id))
    ELSE ReturnedCards([k \in 1..Len(results) |-> results[k].card])

\* validate_all_conceptcards with every record validated before any id is
\* compared
ValidateAllThenDedupe(raw_cards) ==
    DedupeAfter([k \in 1..Len(raw_cards) |-> ValidateConceptCard(raw_cards[k])])

\* validate_all_conceptcards
ValidateAllConceptCards(raw_cards) ==
    BatchOutcome(ValidateFrom(raw_cards, 1, Looping(<<>>, {})))

----------------------------------------------------------------------------
(* retriever.py: token-overlap retrieval over the cards' title, tags and   *)
(* summary.                                                                *)

\* _STOPWORDS
STOPWORDS ==
    { <<"a">>, <<"a", "n">>, <<"t", "h", "e">>, <<"a", "n", "d">>,
      <<"o", "r">>, <<"b", "u", "t">>, <<"i", "s">>, <<"a", "r", "e">>,
      <<"w", "a", "s">>, <<"w", "e", "r", "e">>, <<"b", "e">>, <<"b", "e", "i", "n", "g">>,
      <<"b", "e", "e", "n">>, <<"t", "o">>, <<"o", "f">>, <<"i", "n">>,
      <<"o", "n">>, <<"f", "o", "r">>, <<"w", "i", "t", "h">>, <<"a", "s">>,
      <<"a", "t">>, <<"b", "y">>, <<"f", "r", "o", "m">>, <<"w", "h", "a", "t">>,
      <<"w", "h", "y">>, <<"h", "o", "w">>, <<"w", "h", "e", "n">>, <<"w", "h", "e", "r", "e">>,
      <<"w", "h", "o">>, <<"w", "h", "i", "c", "h">>, <<"i">>, <<"y", "o", "u">>,
      <<"w", "e">>, <<"t", "h", "e", "y">>, <<"h", "e">>, <<"s", "h", "e">>,
      <<"i", "t">>, <<"m", "y">>, <<"y", "o", "u", "r">>, <<"o", "u", "r">>,
      <<"t", "h", "e", "i", "r">> }

\* _WORD_RE
WORD_RE == Plus(In(LowerLetters \cup Digits))

RECURSIVE FindAllFrom(_, _, _, _)
\* re.findall(re, s) from position pos on: the leftmost matches, none
\* overlapping.  (No pattern searched here matches the empty string.)
FindAllFrom(re, s, pos, ic) ==
    IF pos > Len(s) THEN <<>>
    ELSE IF Ends(re, s, pos, ic) = <<>> THEN FindAllFrom(re, s, pos + 1, ic)
    ELSE <<SubSeq(s, pos, Head(Ends(re, s, pos, ic)) - 1)>>
         \o FindAllFrom(re, s, Head(Ends(re, s, pos, ic)), ic)

\* re.findall(re, s)
FindAll(re, s, ic) == FindAllFrom(re, s, 1, ic)

\* _tokens
Tokens(text) == Range(FindAll(WORD_RE, Lower(text), FALSE)) \ STOPWORDS

\* _stringify, of a value that is None, a str or a list of str
Stringify(value) ==
    IF value.t = "none" THEN <<>>
    ELSE IF value.t = "str" THEN value.v
    ELSE JoinWithSpace([k \in 1..Len(value.v) |-> value.v[k].v])

\* getattr(card, name, "")
GetAttr(card, name) == IF name \in DOMAIN card THEN card[name] ELSE StrV(<<>>)

\* " ".join([title, tags, summary]).strip()
Haystack(card) ==
    Strip(JoinWithSpace(<<Stringify(GetAttr(card, "title")),
                          Stringify(GetAttr(card, "tags")),
                          Stringify(GetAttr(card, "summary"))>>))

\* retrieve_candidates
RetrieveCandidates(query, cards) ==
    IF Strip(OrEmpty(query).s) = <<>> THEN <<>>
    ELSE IF Tokens(Strip(OrEmpty(query).s)) = {} THEN <<>>
    ELSE SelectSeq(cards, LAMBDA card :
            /\ Haystack(card) # <<>>
            /\ Tokens(Strip(OrEmpty(query).s)) \cap Tokens(Haystack(card)) # {})

\* sorted(terms): the terms in the order of their code points
RECURSIVE Before(_, _)
Before(a, b) ==
    IF a = <<>> THEN b # <<>>
    ELSE IF b = <<>> THEN FALSE
    ELSE IF a[1] = b[1] THEN Before(Tail(a), Tail(b))
    ELSE LET order == <<"0", "1", "2", "3", "4", "5", "6", "7", "8", "9",
                        "a", "b", "c", "d", "e", "f", "g", "h", "i", "j", "k", "l", "m",
                        "n", "o", "p", "q", "r", "s", "t", "u", "v", "w", "x", "y", "z">>
             at(c) == CHOOSE k \in 1..Len(order) : order[k] = c
         IN  at(a[1]) < at(b[1])

RECURSIVE Sorted(_)
Sorted(terms) ==
    IF terms = {} THEN <<>>
    ELSE LET least == CHOOSE t \in terms : \A u \in terms \ {t} : Before(t, u)
         IN  <<least>> \o Sorted(terms \ {least})

\* RetrievalDebug
RetrievalDebug(matched_terms, matched_fields) ==
    [matched_terms |-> matched_terms, matched_fields |-> matched_fields]

\* _match_debug
MatchDebug(query_tokens, card) ==
    LET overlap(name) == query_tokens \cap Tokens(Stringify(GetAttr(card, name)))
        names == SelectSeq(<<"title", "tags", "summary">>, LAMBDA name : overlap(name) # {})
    IN  RetrievalDebug(Sorted(UNION {overlap(names[k]) : k \in 1..Len(names)}), names)

\* What a call of retrieve leaves behind: the list it returned
\* (paired = FALSE), the pair (results, debug_map) it returned, or the
\* exception it raised.
RetrievedList(results) ==
    [raised |-> "", paired |-> FALSE, results |-> results, debug_map |-> <<>>]
RetrievedPair(results, debug_map) ==
    [raised |-> "", paired |-> TRUE, results |-> results, debug_map |-> debug_map]
RetrieveRaised(exc) ==
    [raised |-> exc, paired |-> FALSE, results |-> <<>>, debug_map |-> <<>>]
NotRetrieved ==
    [raised |-> "pending", paired |-> FALSE, results |-> <<>>, debug_map |-> <<>>]

\* scored[:top_k], for top_k > 0
Truncate(scored, top_k) == SubSeq(scored, 1, IF top_k < Len(scored) THEN top_k ELSE Len(scored))

\* The list scored that retrieve builds from the candidates: (score, card)
Scored(q_tokens, candidates) ==
    LET kept == SelectSeq(candidates, LAMBDA card : Haystack(card) # <<>>)
    IN  [k \in 1..Len(kept) |->
            <<Cardinality(q_tokens \cap Tokens(Haystack(kept[k]))), kept[k]>>]

\* The debug loop of retrieve: "for i in (score, card) in enumerate(scored)"
\* iterates over the value of the test "(score, card) in enumerate(scored)".
\* score and card are the variables of the loop over the candidates: with
\* no candidate they were never bound and reading them raises; otherwise
\* the test gives a bool, which cannot be iterated over.
DebugLoop(candidates) ==
    IF candidates = <<>> THEN RetrieveRaised("UnboundLocalError")
    ELSE RetrieveRaised("TypeError")

\* retrieve
Retrieve(q, card_list, k, dbg) ==
    IF Strip(OrEmpty(q).s) = <<>> \/ k <= 0
    THEN IF dbg THEN RetrievedPair(<<>>, <<>>) ELSE RetrievedList(<<>>)
    ELSE IF ~dbg
    THEN RetrievedList(Truncate(Scored(Tokens(Strip(OrEmpty(q).s)),
                                       RetrieveCandidates(Str(Strip(OrEmpty(q).s)), card_list)), k))
    ELSE DebugLoop(RetrieveCandidates(Str(Strip(OrEmpty(q).s)), card_list))

----------------------------------------------------------------------------
(* State: one call of route, of _sanitize_rewrite, of validate_conceptcard, *)
(* of validate_all_conceptcards or of retrieve, each with the arguments    *)
(* its caller builds and what the call leaves behind.                      *)

VARIABLES
    pc,           \* where the caller is: building the argument, or after the call
    typed,        \* how many pieces the caller has put into the argument
    user_text,    \* route's argument
    outcome,      \* what route(user_text) left behind
    rewrite_in,   \* _sanitize_rewrite's argument
    rewrite_out,  \* what _sanitize_rewrite(rewrite_in) returned
    raw,          \* validate_conceptcard's argument
    validated,    \* what validate_conceptcard(raw) left behind
    raw_cards,    \* validate_all_conceptcards' argument
    validated_all, \* what validate_all_conceptcards(raw_cards) left behind
    query,        \* retrieve's query
    cards,        \* retrieve's cards
    top_k,        \* retrieve's top_k
    debug,        \* retrieve's debug
    retrieved     \* what retrieve(query, cards, top_k=top_k, debug=debug) left behind

vars ==
    <<pc, typed, user_text, outcome, rewrite_in, rewrite_out, raw, validated,
      raw_cards, validated_all, query, cards, top_k, debug, retrieved>>
routerVars == <<user_text, outcome>>
sanitizerVars == <<rewrite_in, rewrite_out>>
validatorVars == <<raw, validated>>
corpusVars == <<raw_cards, validated_all>>
retrieverVars == <<query, cards, top_k, debug, retrieved>>

\* pieces of text a query is made of
MaxFragments == 2
\* pieces of text a candidate rewrite is made of
MaxRewriteFragments == 4
\* fields of the well-formed record that an author got wrong
MaxEdits == 2

\* what the caller types: queries and pieces of queries
Fragments ==
    { <<" ">>,
      <<"s">>,
      <<" ", "p", "o", "n", "z", "i">>,
      <<" ", "l", "a", "u", "n", "d", "e", "r">>,
      <<" ", "m", "o", "n", "e", "y">>,
      <<" ", "S", "h", "o", "u", "l", "d", " ", "I", " ", "s", "e", "l", "l", " ", "n", "o", "w">>,
      <<" ", "b", "e", "s", "t", " ", "E", "T", "F">>,
      <<" ", "m", "y", " ", "p", "o", "r", "t", "f", "o", "l", "i", "o">>,
      <<" ", "t", "i", "m", "e", " ", "t", "h", "e", " ", "m", "a", "r", "k", "e", "t">>,
      <<" ", "t", "U+0130", "m", "e", " ", "t", "h", "e", " ", "m", "a", "r", "k", "e", "t">>,
      <<" ", "w", "i", "t", "h", " ", "$", "5", ",", "0", "0", "0">>,
      <<" ", "W", "h", "a", "t", " ", "i", "s", " ", "a", "n", " ", "I", "R", "A", "?">> }

\* pieces of a candidate rewrite
RewriteFragments ==
    { <<"$">>,
      <<"1">>,
      <<",">>,
      <<".">>,
      <<"A">>,
      <<"b">>,
      <<" ">>,
      <<"B", "u", "y">> }

RouterIdle == user_text = NoneValue /\ outcome = Pending
SanitizerIdle == rewrite_in = <<>> /\ rewrite_out = <<>>
ValidatorIdle == raw = NoneV /\ validated = NotValidated
CorpusIdle == raw_cards = <<>> /\ validated_all = NotValidatedAll
RetrieverIdle ==
    query = NoneValue /\ cards = <<>> /\ top_k = 0 /\ debug = FALSE /\ retrieved = NotRetrieved

(* The query boundary: a front end hands route a text, or None. *)
InitRoute ==
    /\ pc = "input"
    /\ typed = 0
    /\ user_text \in {NoneValue, Str(<<>>)}
    /\ outcome = Pending
    /\ SanitizerIdle
    /\ ValidatorIdle
    /\ CorpusIdle
    /\ RetrieverIdle

TypeFragment(f) ==
    /\ pc = "input"
    /\ ~user_text.isNone
    /\ typed < MaxFragments
    /\ user_text' = Str(user_text.s \o f)
    /\ typed' = typed + 1
    /\ UNCHANGED <<pc, outcome, sanitizerVars, validatorVars, corpusVars, retrieverVars>>

CallRoute ==
    /\ pc = "input"
    /\ outcome' = Route(user_text)
    /\ pc' = "routed"
    /\ UNCHANGED <<typed, user_text, sanitizerVars, validatorVars, corpusVars, retrieverVars>>

NextRoute ==
    \/ \E f \in Fragments : TypeFragment(f)
    \/ CallRoute

SpecRoute == InitRoute /\ [][NextRoute]_vars

(* _sanitize_rewrite on any candidate rewrite. *)
InitSanitize ==
    /\ pc = "input"
    /\ typed = 0
    /\ rewrite_in = <<>>
    /\ rewrite_out = <<>>
    /\ RouterIdle
    /\ ValidatorIdle
    /\ CorpusIdle
    /\ RetrieverIdle

TypeRewriteFragment(f) ==
    /\ pc = "input"
    /\ typed < MaxRewriteFragments
    /\ rewrite_in' = rewrite_in \o f
    /\ typed' = typed + 1
    /\ UNCHANGED <<pc, rewrite_out, routerVars, validatorVars, corpusVars, retrieverVars>>

CallSanitize ==
    /\ pc = "input"
    /\ rewrite_out' = SanitizeRewrite(rewrite_in)
    /\ pc' = "sanitized"
    /\ UNCHANGED <<typed, rewrite_in, routerVars, validatorVars, corpusVars, retrieverVars>>

NextSanitize ==
    \/ \E f \in RewriteFragments : TypeRewriteFragment(f)
    \/ CallSanitize

SpecSanitize == InitSanitize /\ [][NextSanitize]_vars

(* The ingestion boundary: a loader hands validate_conceptcard one decoded *)
(* record.  The records are the well-formed one below with up to MaxEdits  *)
(* of its fields set to something an author may write, or dropped; and     *)
(* one value that is no mapping.                                           *)

OkList == ListV(<<StrV(<<"o", "k">>)>>)
OkAllowed == ListV(<<StrV(EDUCATIONAL_EXPLANATION)>>)
OkForbidden == ListV(<<StrV(PERSONAL_ADVICE), StrV(PRODUCT_RECOMMENDATION)>>)
OkSources == ListV(<<StrV(<<"s", "r", "c">>)>>)
OkDate == StrV(<<"2", "0", "2", "5", "-", "1", "2", "-", "2", "5">>)
OkExample == DictV([scenario |-> StrV(<<"s", "c">>), explanation |-> StrV(<<"e", "x">>)])

Safety(allowed, forbidden) ==
    DictV([allowed_intents |-> allowed, forbidden_intents |-> forbidden])

Metadata(sources, last_updated) ==
    DictV([sources |-> sources, last_updated |-> last_updated])

WellFormed ==
    DictV([id |-> StrV(<<"c", "a", "r", "d", "_", "a">>),
           title |-> StrV(<<"C", "a", "r", "d">>),
           category |-> StrV(<<"c", "r", "e", "d", "i", "t">>),
           difficulty |-> StrV(<<"b", "e", "g", "i", "n", "n", "e", "r">>),
           summary |-> OkList,
           core_mechanics |-> OkList,
           examples |-> ListV(<<>>),
           misconceptions |-> OkList,
           non_goals |-> ListV(<<StrV(<<"n", "o", " ", "a", "d", "v", "i", "c", "e">>)>>),
           safety |-> Safety(OkAllowed, OkForbidden),
           metadata |-> Metadata(OkSources, OkDate)])

\* what an author may write in each field
Written ==
    [id |-> { IntV, StrV(<<" ">>), StrV(<<"<", "i", ">">>), StrV(<<"A", "b">>), StrV(<<" ", "b", "_", "2", " ">>) },
     title |-> { IntV, StrV(<<"<", "t", ">">>) },
     category |-> { StrV(<<"<", "c", ">">>), StrV(<<"x", "y", "z">>), StrV(<<" ", "t", "a", "x", "e", "s", " ">>) },
     difficulty |-> { StrV(<<"<", "d", ">">>), StrV(<<"h", "a", "r", "d">>) },
     summary |-> { StrV(<<"o", "k">>), ListV(<<>>), ListV(<<StrV(<<"<", "s", ">">>)>>),
                   ListV(<<StrV(<<"o", "k">>), IntV>>), ListV(<<StrV(<<"o", "k">>), StrV(<<"Y", "o", "u", "r", " ", "o", "w", "n">>)>>),
                   ListV(<<StrV(<<" ", "a", " ">>), StrV(<<"b", ">">>)>>) },
     core_mechanics |-> { ListV(<<>>), ListV(<<StrV(<<"o", "k">>), StrV(<<"<", "m", ">">>)>>) },
     misconceptions |-> { ListV(<<>>), ListV(<<StrV(<<"a", "<", "m", ">", "b">>)>>) },
     non_goals |-> { IntV, ListV(<<>>), ListV(<<StrV(<<"o", "k">>)>>), ListV(<<StrV(<<"<", "n", ">">>)>>),
                     ListV(<<StrV(<<"N", "o", "t">>), StrV(<<"P", "E", "R", "S", "O", "N", "A", "L">>)>>) },
     examples |-> { IntV, ListV(<<IntV>>), ListV(<<OkExample>>),
                    ListV(<<OkExample, DictV([scenario |-> StrV(<<"<", "s", ">">>), explanation |-> StrV(<<"e", "x">>)])>>),
                    ListV(<<DictV([scenario |-> StrV(<<"s", "c">>), explanation |-> StrV(<<"<", "e", ">">>)])>>),
                    ListV(<<DictV([scenario |-> StrV(<<"s", "c">>)])>>),
                    ListV(<<DictV([scenario |-> StrV(<<"s", "c">>), explanation |-> StrV(<<"e", "x">>),
                                   note |-> StrV(<<"<", "n", ">">>)])>>) },
     safety |-> { IntV,
                  Safety(IntV, OkForbidden),
                  Safety(OkAllowed, ListV(<<IntV>>)),
                  Safety(ListV(<<StrV(<<"<", "a", ">">>)>>), OkForbidden),
                  Safety(ListV(<<StrV(<<"b", "o", "g", "u", "s">>)>>), OkForbidden),
                  Safety(ListV(<<>>), OkForbidden),
                  Safety(OkAllowed, ListV(<<StrV(PERSONAL_ADVICE)>>)),
                  Safety(OkAllowed, ListV(<<StrV(PRODUCT_RECOMMENDATION), StrV(<<"<", "f", ">">>)>>)),
                  Safety(OkAllowed, ListV(<<>>)),
                  Safety(ListV(<<StrV(PERSONAL_ADVICE)>>), OkForbidden),
                  Safety(ListV(<<StrV(SCORE_OPTIMIZATION)>>),
                         ListV(<<StrV(<<" ", "p", "e", "r", "s", "o", "n", "a", "l", "_", "a", "d", "v", "i", "c", "e", " ">>), StrV(PRODUCT_RECOMMENDATION),
                                 StrV(SCORE_OPTIMIZATION)>>)),
                  Safety(ListV(<<StrV(DEFINITION_LOOKUP)>>),
                         ListV(<<StrV(PRODUCT_RECOMMENDATION), StrV(PERSONAL_ADVICE),
                                 StrV(SCORE_OPTIMIZATION)>>)),
                  DictV([allowed_intents |-> OkAllowed, forbidden_intents |-> OkForbidden,
                         note |-> StrV(<<"<", "n", ">">>)]) },
     metadata |-> { IntV,
                    Metadata(ListV(<<>>), OkDate),
                    Metadata(StrV(<<"s", "r", "c">>), OkDate),
                    Metadata(ListV(<<StrV(<<"<", "s", ">">>)>>), OkDate),
                    Metadata(OkSources, StrV(<<"<", "d", ">">>)),
                    Metadata(OkSources, StrV(<<"2", "0", "2", "5", "-", "1", "-", "1">>)),
                    Metadata(OkSources, StrV(<<" ", "2", "0", "2", "5", "-", "1", "2", "-", "2", "5", " ">>)),
                    DictV([sources |-> OkSources]),
                    DictV([sources |-> OkSources, last_updated |-> OkDate,
                           note |-> StrV(<<"<", "n", ">">>)]) },
     notes |-> { StrV(<<"f", "i", "n", "e">>), StrV(<<"<", "n", ">">>) },
     tags |-> { ListV(<<StrV(<<"<", "t", ">">>)>>) }]

\* the fields validate_conceptcard requires
RequiredKeys ==
    { "id", "title", "category", "difficulty", "summary", "core_mechanics",
      "examples", "misconceptions", "non_goals", "safety", "metadata" }

InitValidate ==
    /\ pc = "input"
    /\ typed = 0
    /\ raw \in {WellFormed, IntV}
    /\ validated = NotValidated
    /\ RouterIdle
    /\ SanitizerIdle
    /\ CorpusIdle
    /\ RetrieverIdle

\* the author writes val in the record's field key
SetField(key, val) ==
    /\ pc = "input"
    /\ raw.t = "dict"
    /\ typed < MaxEdits
    /\ raw' = DictV([k \in DOMAIN raw.v \cup {key} |-> IF k = key THEN val ELSE raw.v[k]])
    /\ typed' = typed + 1
    /\ UNCHANGED <<pc, validated, routerVars, sanitizerVars, corpusVars, retrieverVars>>

\* the author leaves the field key out
DropField(key) ==
    /\ pc = "input"
    /\ raw.t = "dict"
    /\ typed < MaxEdits
    /\ key \in DOMAIN raw.v
    /\ raw' = DictV([k \in DOMAIN raw.v \ {key} |-> raw.v[k]])
    /\ typed' = typed + 1
    /\ UNCHANGED <<pc, validated, routerVars, sanitizerVars, corpusVars, retrieverVars>>

CallValidate ==
    /\ pc = "input"
    /\ validated' = ValidateConceptCard(raw)
    /\ pc' = "validated"
    /\ UNCHANGED <<typed, raw, routerVars, sanitizerVars, corpusVars, retrieverVars>>

NextValidate ==
    \/ \E key \in DOMAIN Written : \E val \in Written[key] : SetField(key, val)
    \/ \E key \in RequiredKeys : DropField(key)
    \/ CallValidate

SpecValidate == InitValidate /\ [][NextValidate]_vars

(* The ingestion boundary, a whole corpus: a loader hands                  *)
(* validate_all_conceptcards the records it read, in the order it read     *)
(* them.                                                                   *)

\* records of a corpus
MaxBatch == 3

\* record with val in its field key
WithField(record, key, val) ==
    DictV([k \in DOMAIN record.v \cup {key} |-> IF k = key THEN val ELSE record.v[k]])

\* record without its field key
WithoutField(record, key) == DictV([k \in DOMAIN record.v \ {key} |-> record.v[k]])

\* what a file of the corpus may hold: the well-formed record, a copy whose
\* id differs by a trailing blank, one with another id, two invalid ones,
\* and a value that is no mapping
BatchRecords ==
    { WellFormed,
      WithField(WellFormed, "id", StrV(<<"c", "a", "r", "d", "_", "a", " ">>)),
      WithField(WellFormed, "id", StrV(<<"b", "_", "2">>)),
      WithField(WellFormed, "id", StrV(<<"A", "b">>)),
      WithoutField(WellFormed, "title"),
      IntV }

InitBatch ==
    /\ pc = "input"
    /\ typed = 0
    /\ raw_cards = <<>>
    /\ validated_all = NotValidatedAll
    /\ RouterIdle
    /\ SanitizerIdle
    /\ ValidatorIdle
    /\ RetrieverIdle

\* the loader reads one more record
ReadRecord(r) ==
    /\ pc = "input"
    /\ typed < MaxBatch
    /\ raw_cards' = Append(raw_cards, r)
    /\ typed' = typed + 1
    /\ UNCHANGED <<pc, validated_all, routerVars, sanitizerVars, validatorVars, retrieverVars>>

CallValidateAll ==
    /\ pc = "input"
    /\ validated_all' = ValidateAllConceptCards(raw_cards)
    /\ pc' = "validated_all"
    /\ UNCHANGED <<typed, raw_cards, routerVars, sanitizerVars, validatorVars, retrieverVars>>

NextBatch ==
    \/ \E r \in BatchRecords : ReadRecord(r)
    \/ CallValidateAll

SpecBatch == InitBatch /\ [][NextBatch]_vars

----------------------------------------------------------------------------
(* retrieve, called with a query put together from words, some cards of a  *)
(* small corpus, a top_k and a debug flag.                                 *)

\* How many words the caller puts into a query
MaxQueryWords == 2
\* How many cards the caller passes
MaxCards == 2
\* The largest top_k the caller asks for
MaxTopK == 2

\* Words of a query: terms of the corpus, stopwords, blanks
QueryWords ==
    { <<"c", "o", "m", "p", "o", "u", "n", "d">>,
      <<" ", "I", "n", "t", "e", "r", "e", "s", "t">>,
      <<" ", "t", "h", "e", " ">>,
      <<"c", "r", "e", "d", "i", "t", "?">>,
      <<" ">> }

\* The corpus: cards with title, tags and summary like the tests' FakeCard,
\* a card without tags and with a list for summary like ConceptCard, and a
\* card with nothing to match
Corpus ==
    { [title |-> StrV(<<"C", "o", "m", "p", "o", "u", "n", "d", " ", "I", "n", "t", "e", "r", "e", "s", "t">>),
       tags |-> ListV(<<StrV(<<"s", "a", "v", "i", "n", "g", "s">>)>>),
       summary |-> StrV(<<"G", "r", "o", "w", "t", "h">>)],
      [title |-> StrV(<<"S", "c", "o", "r", "e">>),
       tags |-> ListV(<<StrV(<<"c", "r", "e", "d", "i", "t">>), StrV(<<"t", "h", "e">>)>>),
       summary |-> StrV(<<"c", "r", "e", "d", "i", "t", " ", "u", "s", "e">>)],
      [title |-> StrV(<<"A", "P", "R">>),
       summary |-> ListV(<<StrV(<<"i", "n", "t", "e", "r", "e", "s", "t">>), StrV(<<"c", "o", "m", "p", "o", "u", "n", "d">>)>>)],
      [title |-> StrV(<<>>), tags |-> NoneV, summary |-> StrV(<<" ">>)] }

InitRetrieve ==
    /\ pc = "asking"
    /\ typed = 0
    /\ query \in {NoneValue, Str(<<>>)}
    /\ cards = <<>>
    /\ top_k \in (-1)..MaxTopK
    /\ debug \in BOOLEAN
    /\ retrieved = NotRetrieved
    /\ RouterIdle
    /\ SanitizerIdle
    /\ ValidatorIdle
    /\ CorpusIdle

\* The caller adds a word to the query
TypeWord(w) ==
    /\ pc = "asking"
    /\ typed < MaxQueryWords
    /\ typed' = typed + 1
    /\ query' = Str(OrEmpty(query).s \o w)
    /\ UNCHANGED <<pc, cards, top_k, debug, retrieved>>
    /\ UNCHANGED <<routerVars, sanitizerVars, validatorVars, corpusVars>>

\* The caller adds a card of the corpus to the list
PassCard(card) ==
    /\ pc = "asking"
    /\ Len(cards) < MaxCards
    /\ card \notin Range(cards)
    /\ cards' = Append(cards, card)
    /\ UNCHANGED <<pc, typed, query, top_k, debug, retrieved>>
    /\ UNCHANGED <<routerVars, sanitizerVars, validatorVars, corpusVars>>

\* retrieved = retrieve(query, cards, top_k=top_k, debug=debug), or the
\* exception it raised
CallRetrieve ==
    /\ pc = "asking"
    /\ pc' = "retrieved"
    /\ retrieved' = Retrieve(query, cards, top_k, debug)
    /\ UNCHANGED <<typed, query, cards, top_k, debug>>
    /\ UNCHANGED <<routerVars, sanitizerVars, validatorVars, corpusVars>>

NextRetrieve ==
    \/ \E w \in QueryWords : TypeWord(w)
    \/ \E card \in Corpus : PassCard(card)
    \/ CallRetrieve

SpecRetrieve == InitRetrieve /\ [][NextRetrieve]_vars

----------------------------------------------------------------------------
(* The claims about route.                                                 *)

\* the text route classifies: (user_text or "").strip()
RoutedText == IF user_text.isNone THEN <<>> ELSE Strip(user_text.s)

Decision == outcome.value

Routed == pc = "routed" /\ outcome.raised = ""

\* C1: a text that is not empty after trimming and matches an illegal
\* pattern is refused, with reason illegal_financial and no rewrite,
\* whatever other group it matches.
C1_IllegalIsRefused ==
    (/\ pc = "routed"
     /\ ~user_text.isNone
     /\ Strip(user_text.s) # <<>>
     /\ MatchesAny(ILLEGAL_PATTERNS, user_text.s))
    => /\ outcome.raised = ""
       /\ Decision = PolicyDecision(REFUSE, REASON_ILLEGAL_FINANCIAL, NoneValue)

\* C1, its case: a refused text that matches an advice pattern as well
C1_Witness ==
    /\ Routed
    /\ MatchesAny(ILLEGAL_PATTERNS, RoutedText)
    /\ MatchesAny(ADVICE_PATTERNS, RoutedText)
    /\ Decision.action = REFUSE

\* C2: first match wins in the order illegal > advice > allocation >
\* timing > allow: empty text is allowed; then advice gives
\* asset_recommendation, else allocation gives portfolio_allocation, else
\* timing gives timing_request, all three TRANSFORM; and ALLOW,
\* general_education, only when no group matches.
C2_CascadeOrder ==
    pc = "routed" =>
        LET text == RoutedText
            illegal == MatchesAny(ILLEGAL_PATTERNS, text)
            advice == MatchesAny(ADVICE_PATTERNS, text)
            allocation == MatchesAny(ALLOCATION_PATTERNS, text)
            timing == MatchesAny(TIMING_PATTERNS, text)
            Is(action, reason) ==
                outcome.raised = "" /\ Decision.action = action /\ Decision.reason = reason
        IN  /\ text = <<>> => Is(ALLOW, REASON_GENERAL_EDU)
            /\ (text # <<>> /\ illegal) => Is(REFUSE, REASON_ILLEGAL_FINANCIAL)
            /\ (text # <<>> /\ ~illegal /\ advice)
                    => Is(TRANSFORM, REASON_ASSET_RECOMMENDATION)
            /\ (text # <<>> /\ ~illegal /\ ~advice /\ allocation)
                    => Is(TRANSFORM, REASON_PORTFOLIO_ALLOCATION)
            /\ (text # <<>> /\ ~illegal /\ ~advice /\ ~allocation /\ timing)
                    => Is(TRANSFORM, REASON_TIMING_REQUEST)
            /\ (text # <<>> /\ ~illegal /\ ~advice /\ ~allocation /\ ~timing)
                    => Is(ALLOW, REASON_GENERAL_EDU)
            /\ (outcome.raised = "" /\ Decision.action = ALLOW)
                    => (text = <<>> \/ ~(illegal \/ advice \/ allocation \/ timing))

\* C2, its case: a text of the allocation and the timing group, and of no
\* group before them, gets the allocation reason
C2_Witness ==
    /\ Routed
    /\ MatchesAny(ALLOCATION_PATTERNS, RoutedText)
    /\ MatchesAny(TIMING_PATTERNS, RoutedText)
    /\ Decision.reason = REASON_PORTFOLIO_ALLOCATION

\* C3: a decision carries a rewrite if and only if its action is TRANSFORM.
C3_RewriteIffTransform ==
    Routed => (~Decision.rewrite.isNone <=> Decision.action = TRANSFORM)

\* C3, its case: a TRANSFORM with its rewrite
C3_Witness ==
    /\ Routed
    /\ Decision.action = TRANSFORM
    /\ ~Decision.rewrite.isNone
    /\ Decision.rewrite.s # <<>>

\* C4: the rewrite of a TRANSFORM, lower-cased, has no "$", no "buy" and no
\* "sell" in it.
C4_RewriteHasNoAmountOrVerb ==
    (Routed /\ Decision.action = TRANSFORM) =>
        LET rw == Lower(Decision.rewrite.s)
        IN  /\ ~Contains(rw, <<"$">>)
            /\ ~Contains(rw, <<"b", "u", "y">>)
            /\ ~Contains(rw, <<"s", "e", "l", "l">>)

\* C4, its case: the user wrote an amount and a verb, and the reframing
\* chosen has a verb in it before it is sanitized
C4_Witness ==
    /\ Routed
    /\ Decision.action = TRANSFORM
    /\ Contains(user_text.s, <<"$", "5", ",", "0", "0", "0">>)
    /\ Contains(Lower(user_text.s), <<"s", "e", "l", "l">>)
    /\ Contains(SafeRewriteForAdvice(RoutedText), <<"s", "e", "l", "l">>)

\* C6: route has no error path: whatever the text (empty, blank, None), it
\* returns a PolicyDecision, with an action, a reason tag and a rewrite
\* that is None or a str.
ReasonTags ==
    { REASON_GENERAL_EDU, REASON_PERSONALIZED_ADVICE, REASON_ASSET_RECOMMENDATION,
      REASON_TIMING_REQUEST, REASON_PORTFOLIO_ALLOCATION, REASON_ILLEGAL_FINANCIAL,
      REASON_AMBIGUOUS }

C6_RouteNeverRaises ==
    pc = "routed" =>
        /\ outcome.raised = ""
        /\ DOMAIN Decision = {"action", "reason", "rewrite"}
        /\ Decision.action \in {ALLOW, TRANSFORM, REFUSE}
        /\ Decision.reason \in ReasonTags
        /\ Decision.rewrite.isNone \in BOOLEAN

\* C6, its case: route(None) returned
C6_Witness ==
    /\ pc = "routed"
    /\ user_text.isNone
    /\ outcome.raised = ""
    /\ Decision.action = ALLOW

\* C18: the reason tag of a decision is fixed by its action: ALLOW carries
\* general_education, REFUSE carries illegal_financial, TRANSFORM carries
\* asset_recommendation, portfolio_allocation or timing_request; no input
\* produces the reserved tag ambiguous.
C18_ReasonFixedByAction ==
    Routed =>
        /\ Decision.action = ALLOW => Decision.reason = REASON_GENERAL_EDU
        /\ Decision.action = REFUSE => Decision.reason = REASON_ILLEGAL_FINANCIAL
        /\ Decision.action = TRANSFORM =>
                Decision.reason \in { REASON_ASSET_RECOMMENDATION,
                                      REASON_PORTFOLIO_ALLOCATION,
                                      REASON_TIMING_REQUEST }
        /\ Decision.reason # REASON_AMBIGUOUS

\* a text of more than one group, none of them the illegal or the advice
\* one, has been routed
C18_Witness ==
    /\ Routed
    /\ MatchesAny(ALLOCATION_PATTERNS, RoutedText)
    /\ MatchesAny(TIMING_PATTERNS, RoutedText)
    /\ ~MatchesAny(ADVICE_PATTERNS, RoutedText)
    /\ Decision.action = TRANSFORM
    /\ Decision.reason # REASON_GENERAL_EDU

\* The pattern groups a text matches
Groups(text) ==
    [illegal |-> MatchesAny(ILLEGAL_PATTERNS, text),
     advice |-> MatchesAny(ADVICE_PATTERNS, text),
     allocation |-> MatchesAny(ALLOCATION_PATTERNS, text),
     timing |-> MatchesAny(TIMING_PATTERNS, text)]

\* The three reframings, as a decision carries them
Templates ==
    { SanitizeRewrite(TIMING_REWRITE),
      SanitizeRewrite(ALLOCATION_REWRITE),
      SanitizeRewrite(DEFAULT_REWRITE) }

\* C17: every TRANSFORM rewrite is one of three fixed templates, and it
\* depends only on which pattern groups the query matches: any other query
\* that matches the same groups receives the identical rewrite, so nothing
\* the user wrote reaches the rewrite.
C17_RewriteFromGroupsOnly ==
    (Routed /\ Decision.action = TRANSFORM) =>
        /\ Decision.rewrite.s \in Templates
        /\ \A f \in Fragments :
                Groups(Strip(f)) = Groups(RoutedText) =>
                    Route(Str(f)).value.rewrite = Decision.rewrite

\* The reframing that goes with the patterns a text matches
ReframingFor(text) ==
    IF MatchesAny(TIMING_PATTERNS, text) THEN TIMING_REWRITE
    ELSE IF MatchesAny(ALLOCATION_PATTERNS, text) THEN ALLOCATION_REWRITE
    ELSE DEFAULT_REWRITE

\* C19: on TRANSFORM the rewrite is selected by which sub-pattern the
\* input matched: the timing reframing for a timing-shaped input, the
\* allocation reframing for an allocation-shaped one, the generic
\* reframing for every other.
C19_RewriteBySubPattern ==
    (Routed /\ Decision.action = TRANSFORM) =>
        Decision.rewrite = Str(SanitizeRewrite(ReframingFor(RoutedText)))

\* C21: the reframing is chosen independently of the reason tag, timing
\* before allocation before generic: a TRANSFORM input that matches a
\* timing pattern receives the timing reframing whatever its reason, and
\* one that matches an allocation pattern and no timing pattern receives
\* the allocation reframing whatever its reason.
C21_ReframingPrecedence ==
    (Routed /\ Decision.action = TRANSFORM) =>
        /\ MatchesAny(TIMING_PATTERNS, RoutedText) =>
                Decision.rewrite.s = SanitizeRewrite(TIMING_REWRITE)
        /\ (/\ MatchesAny(ALLOCATION_PATTERNS, RoutedText)
            /\ ~MatchesAny(TIMING_PATTERNS, RoutedText)) =>
                Decision.rewrite.s = SanitizeRewrite(ALLOCATION_REWRITE)

----------------------------------------------------------------------------
(* The claim about _sanitize_rewrite.                                      *)

\* C5: the sanitizer's output has no amount-shaped substring and no bare
\* upper-case token of 1 to 5 letters; an input that had one has
\* "[amount]", respectively "[asset]", in its place.
C5_SanitizedHasNoAmountOrTicker ==
    pc = "sanitized" =>
        /\ ~Search(AMOUNT_RE, rewrite_out, FALSE)
        /\ ~Search(TICKER_LIKE, rewrite_out, FALSE)
        /\ Search(AMOUNT_RE, rewrite_in, FALSE) => Contains(rewrite_out, AMOUNT_TOKEN)
        /\ Search(TICKER_LIKE, rewrite_in, FALSE) => Contains(rewrite_out, ASSET_TOKEN)

\* C5, its case: a ticker and an amount next to each other, both replaced
C5_Witness ==
    /\ pc = "sanitized"
    /\ rewrite_in = <<"A", " ", "$", "1">>
    /\ Contains(rewrite_out, ASSET_TOKEN \o <<" ">> \o AMOUNT_TOKEN)

----------------------------------------------------------------------------
(* The claims about validate_conceptcard.                                  *)

Validated == pc = "validated"
Accepted == Validated /\ validated.raised = ""
Rejected == Validated /\ validated.raised = "ConceptValidationError"

\* the intents a record's list names, where it is a list of strings
NamedIntents(v) == {Strip(v.v[k].v) : k \in 1..Len(v.v)}

\* the record's safety mapping names its intents, and they break the
\* baseline or overlap
BreaksSafety(record) ==
    /\ record.t = "dict"
    /\ "safety" \in DOMAIN record.v
    /\ record.v["safety"].t = "dict"
    /\ LET allowed == Get(record.v["safety"], "allowed_intents")
           forbidden == Get(record.v["safety"], "forbidden_intents")
       IN  /\ IsListOfStr(allowed)
           /\ IsListOfStr(forbidden)
           /\ \/ ~(MustForbid \subseteq NamedIntents(forbidden))
              \/ NamedIntents(allowed) \cap NamedIntents(forbidden) # {}

\* C7: a returned card forbids personal_advice and product_recommendation
\* and allows nothing it forbids; a record that breaks either is rejected
\* with a validation error.
C7_SafetyBaseline ==
    /\ Accepted =>
        /\ {PERSONAL_ADVICE, PRODUCT_RECOMMENDATION}
                \subseteq Range(validated.card.forbidden_intents)
        /\ Range(validated.card.allowed_intents)
                \cap Range(validated.card.forbidden_intents) = {}
    /\ (Validated /\ BreaksSafety(raw)) => Rejected

\* C7, its case: a record otherwise fine whose forbidden list lacks one of
\* the two is rejected for that
C7_Witness ==
    /\ Rejected
    /\ BreaksSafety(raw)
    /\ PERSONAL_ADVICE \in NamedIntents(Get(raw.v["safety"], "forbidden_intents"))
    /\ validated.err.msg = "must include"
    /\ validated.err.detail = <<PRODUCT_RECOMMENDATION>>

\* a string somewhere in v, at any depth, holds a placeholder
RECURSIVE HoldsPlaceholder(_)
HoldsPlaceholder(v) ==
    CASE v.t = "str" -> HasPlaceholder(v.v)
      [] v.t = "list" -> \E k \in 1..Len(v.v) : HoldsPlaceholder(v.v[k])
      [] v.t = "dict" -> \E key \in DOMAIN v.v : HoldsPlaceholder(v.v[key])
      [] OTHER -> FALSE

\* C8: no string anywhere in a record that survives validation, at any
\* depth, holds a placeholder.
C8_NoPlaceholderAnywhere == Accepted => ~HoldsPlaceholder(raw)

\* a string, or an item of a list of strings, holds a placeholder
StrHasPlaceholder(v) == v.t = "str" /\ HasPlaceholder(v.v)
ItemHasPlaceholder(v) ==
    v.t = "list" /\ \E k \in 1..Len(v.v) : StrHasPlaceholder(v.v[k])

\* a required field of the record holds a placeholder
RequiredFieldHasPlaceholder(record) ==
    /\ record.t = "dict"
    /\ \/ \E key \in {"id", "title", "category", "difficulty"} :
            StrHasPlaceholder(Get(record, key))
       \/ \E key \in {"summary", "core_mechanics", "misconceptions", "non_goals"} :
            ItemHasPlaceholder(Get(record, key))
       \/ LET examples == Get(record, "examples")
          IN  /\ examples.t = "list"
              /\ \E k \in 1..Len(examples.v) :
                    /\ examples.v[k].t = "dict"
                    /\ \/ StrHasPlaceholder(Get(examples.v[k], "scenario"))
                       \/ StrHasPlaceholder(Get(examples.v[k], "explanation"))
       \/ LET safety == Get(record, "safety")
          IN  /\ safety.t = "dict"
              /\ \/ ItemHasPlaceholder(Get(safety, "allowed_intents"))
                 \/ ItemHasPlaceholder(Get(safety, "forbidden_intents"))
       \/ LET metadata == Get(record, "metadata")
          IN  /\ metadata.t = "dict"
              /\ \/ ItemHasPlaceholder(Get(metadata, "sources"))
                 \/ StrHasPlaceholder(Get(metadata, "last_updated"))

\* C9: a record with a placeholder in a required field fails validation
\* with a validation error, and no card is returned.
C9_PlaceholderInRequiredFieldRejected ==
    (Validated /\ RequiredFieldHasPlaceholder(raw)) =>
        Rejected /\ validated.card = NoneV

\* C9, its case: the placeholder is the only thing wrong, in a list the
\* validator reads last
C9_Witness ==
    /\ Rejected
    /\ typed = 1
    /\ ItemHasPlaceholder(Get(Get(raw, "metadata"), "sources"))
    /\ validated.err.field = FieldAt("metadata.sources", 0)
    /\ validated.err.msg = MSG_PLACEHOLDER

\* The checks of validate_conceptcard on a record that is a mapping, each
\* with what it raises on this record when it is the one that fails:
\* the string test and the enum decoding of a field are two checks.
StrCheck(record, key) == RequireStr(record, CardIdForErrors(record), key)

EnumCheck(record, key, enum_values) ==
    LET s == StrCheck(record, key)
    IN  IF ~s.ok THEN Ok(NoneV)
        ELSE ToEnum(CardIdForErrors(record), Field(key), enum_values, s.val)

IdPatternCheck(record) ==
    LET s == StrCheck(record, "id")
    IN  IF ~s.ok \/ FullMatch(ID_RE, s.val, FALSE) THEN Ok(NoneV)
        ELSE RaiseError(CardIdForErrors(record), Field("id"),
                "must be snake_case (lowercase letters, digits, underscores)", <<>>)

Check(record, name) ==
    LET card_id == CardIdForErrors(record)
    IN  CASE name = "id" -> StrCheck(record, "id")
          [] name = "title" -> StrCheck(record, "title")
          [] name = "category" -> StrCheck(record, "category")
          [] name = "difficulty" -> StrCheck(record, "difficulty")
          [] name = "category enum" -> EnumCheck(record, "category", CategoryValues)
          [] name = "difficulty enum" -> EnumCheck(record, "difficulty", DifficultyValues)
          [] name = "summary" -> RequireListOfStr(record, card_id, "summary", 1)
          [] name = "core_mechanics" -> RequireListOfStr(record, card_id, "core_mechanics", 1)
          [] name = "misconceptions" -> RequireListOfStr(record, card_id, "misconceptions", 1)
          [] name = "non_goals" -> RequireListOfStr(record, card_id, "non_goals", 1)
          [] name = "examples" -> RequireExamples(record, card_id)
          [] name = "safety" -> RequireSafety(record, card_id)
          [] name = "metadata" -> RequireMetadata(record, card_id)
          [] name = "heuristics" -> EducationOnlyHeuristics(card_id, record)
          [] name = "id pattern" -> IdPatternCheck(record)

\* the order of the checks as the specification numbers them (2 strings,
\* 3 lists, 4 enums, 5 examples, 6 safety, 7 metadata, 8 heuristics, 9 id)
StatedOrder ==
    << "id", "title", "category", "difficulty",
       "summary", "core_mechanics", "misconceptions", "non_goals",
       "category enum", "difficulty enum",
       "examples", "safety", "metadata", "heuristics", "id pattern" >>

\* the order with each enum decoded right after its own string test
RunOrder ==
    << "id", "title", "category", "category enum", "difficulty", "difficulty enum",
       "summary", "core_mechanics", "misconceptions", "non_goals",
       "examples", "safety", "metadata", "heuristics", "id pattern" >>

\* what validation leaves behind agrees with the checks taken in order:
\* a card if none fails, else the error of the first that fails
FirstViolationIn(order) ==
    Validated =>
        IF raw.t # "dict"
        THEN Rejected /\ validated.err.msg = "ConceptCard raw value must be a dict"
        ELSE LET failing == {k \in 1..Len(order) : ~Check(raw, order[k]).ok}
             IN  IF failing = {} THEN Accepted
                 ELSE /\ Rejected
                      /\ validated.err =
                            Check(raw, order[CHOOSE k \in failing : \A j \in failing : k <= j]).err

\* C10 as stated: the checks run in the order 1 mapping, 2 required
\* strings, 3 lists of strings, 4 enum decoding, 5 examples, 6 safety,
\* 7 metadata, 8 heuristics, 9 id pattern, and the error raised is that of
\* the first violation in this order.
C10_StatedOrder == FirstViolationIn(StatedOrder)

\* C10 as amended: the same, with the enum decoding of category and of
\* difficulty each right after that field's string test, before the lists.
C10_RunOrder == FirstViolationIn(RunOrder)

\* C10, its case: a record with an undecodable category and a bad list is
\* rejected for the category
C10_Witness ==
    /\ Rejected
    /\ raw.t = "dict"
    /\ ~Check(raw, "category enum").ok
    /\ ~Check(raw, "summary").ok
    /\ validated.err.field = Field("category")
    /\ validated.err.msg = "invalid value"

\* the record is a mapping without non_goals
MissingNonGoals == raw.t = "dict" /\ "non_goals" \notin DOMAIN raw.v

\* C14 as stated: a record without non_goals fails with a field-addressed
\* error whose field path names non_goals.
C14_MissingNonGoalsNamed ==
    (Validated /\ MissingNonGoals) =>
        Rejected /\ validated.err.field = Field("non_goals")

\* the checks validate_conceptcard runs before it reads non_goals
ChecksBeforeNonGoals ==
    << "id", "title", "category", "category enum", "difficulty", "difficulty enum",
       "summary", "core_mechanics", "misconceptions" >>

\* the checks before non_goals that the record fails
FailingBeforeNonGoals ==
    {k \in 1..Len(ChecksBeforeNonGoals) : ~Check(raw, ChecksBeforeNonGoals[k]).ok}

\* C14 as amended: a mapping without non_goals fails with a field-addressed
\* error; the field it names is non_goals when the checks that run before
\* non_goals is read all pass, and otherwise the field of the first of
\* those checks that fails.
C14_MissingNonGoalsRejected ==
    (Validated /\ MissingNonGoals) =>
        /\ Rejected
        /\ validated.err.prefixed
        /\ validated.err.field.key # ""
        /\ IF FailingBeforeNonGoals = {}
           THEN validated.err.field = Field("non_goals")
           ELSE validated.err.field =
                    Check(raw, ChecksBeforeNonGoals[
                        CHOOSE k \in FailingBeforeNonGoals :
                            \A j \in FailingBeforeNonGoals : k <= j]).err.field

\* C14, its case: non_goals is missing and safety is wrong too; the error
\* names non_goals
C14_Witness ==
    /\ Rejected
    /\ MissingNonGoals
    /\ ~Check(raw, "safety").ok
    /\ validated.err.field = Field("non_goals")
    /\ validated.err.msg = MSG_MISSING

\* a list of str as a raw list
RawList(strs) == ListV([k \in 1..Len(strs) |-> StrV(strs[k])])

\* The card written back as a raw record: the enum members as their string
\* values, safety and metadata nested again
Serialize(card) ==
    DictV([id |-> StrV(card.id),
           title |-> StrV(card.title),
           category |-> StrV(card.category),
           difficulty |-> StrV(card.difficulty),
           summary |-> RawList(card.summary),
           core_mechanics |-> RawList(card.core_mechanics),
           examples |-> ListV([k \in 1..Len(card.examples) |->
                            DictV([scenario |-> StrV(card.examples[k].scenario),
                                   explanation |-> StrV(card.examples[k].explanation)])]),
           misconceptions |-> RawList(card.misconceptions),
           non_goals |-> RawList(card.non_goals),
           safety |-> Safety(RawList(card.allowed_intents), RawList(card.forbidden_intents)),
           metadata |-> Metadata(RawList(card.sources), StrV(card.last_updated))])

\* C15: the card of an accepted record, written back as a raw record and
\* validated again, is accepted and yields an equal card.
C15_RoundTrip ==
    Accepted => ValidateConceptCard(Serialize(validated.card)) = ReturnedCard(validated.card)

\* C15, its case: the accepted record is not what its card serializes to
\* (blanks around its id and its category, an extra key)
C15_Witness ==
    /\ Accepted
    /\ typed = 2
    /\ validated.card.id # raw.v["id"].v
    /\ DOMAIN raw.v # DOMAIN Serialize(validated.card).v

\* the record has an empty list where a card needs an element
HasEmptyList(record) ==
    /\ record.t = "dict"
    /\ \/ \E key \in {"summary", "core_mechanics", "misconceptions", "non_goals"} :
            Get(record, key) = ListV(<<>>)
       \/ /\ Get(record, "metadata").t = "dict"
          /\ Get(Get(record, "metadata"), "sources") = ListV(<<>>)

\* a non-empty str with no blank at either end
NonEmptyTrimmed(s) == s # <<>> /\ Strip(s) = s

\* C20: a returned card has at least one element in each of summary,
\* core_mechanics, misconceptions, non_goals and sources, each a non-empty
\* trimmed string; examples may be empty (the well-formed record has none
\* and is accepted); a record with an empty list in one of the five is
\* rejected.
C20_ListsNonEmpty ==
    /\ Accepted =>
            \A f \in {"summary", "core_mechanics", "misconceptions", "non_goals", "sources"} :
                /\ Len(validated.card[f]) >= 1
                /\ \A k \in 1..Len(validated.card[f]) : NonEmptyTrimmed(validated.card[f][k])
    /\ (Validated /\ raw = WellFormed) => (Accepted /\ validated.card.examples = <<>>)
    /\ (Validated /\ HasEmptyList(raw)) => Rejected

\* C20, its case: metadata.sources = [] is the one thing wrong
C20_Witness ==
    /\ Rejected
    /\ typed = 1
    /\ HasEmptyList(raw)
    /\ validated.err.field = Field("metadata.sources")

----------------------------------------------------------------------------
(* The claims about validate_all_conceptcards.                             *)

ValidatedAll == pc = "validated_all"
BatchReturned == ValidatedAll /\ validated_all.raised = ""
BatchRejected == ValidatedAll /\ validated_all.raised = "ConceptValidationError"

\* what validate_conceptcard leaves behind for record k of the batch
ResultOf(k) == ValidateConceptCard(raw_cards[k])

\* the error names a card id, a field path and a reason
CarriesIdFieldReason(err) ==
    err.card_id # <<>> /\ err.field.key # "" /\ err.msg # ""

\* C11: every validation error of validate_conceptcard and of
\* validate_all_conceptcards carries the card id (or <missing-id>), the
\* field path and a reason, the error for a record that is no mapping and
\* the error for a duplicate id included.
C11_ErrorCarriesIdFieldReason ==
    BatchRejected => CarriesIdFieldReason(validated_all.err)

\* two records of the batch, each valid alone, yield the same card id
SameIdPair ==
    \E i, j \in 1..Len(raw_cards) :
        /\ i < j
        /\ ResultOf(i).raised = ""
        /\ ResultOf(j).raised = ""
        /\ ResultOf(i).card.id = ResultOf(j).card.id

\* C12: a batch in which two records yield the same card id is rejected,
\* each being valid alone or not; the ids of a returned list are pairwise
\* distinct.
C12_DistinctIds ==
    /\ BatchReturned =>
            \A i, j \in 1..Len(validated_all.cards) :
                i # j => validated_all.cards[i].id # validated_all.cards[j].id
    /\ (ValidatedAll /\ SameIdPair) => BatchRejected

\* C12, its case: two records, each valid alone, whose ids as written
\* differ and whose card ids are the same, are rejected as duplicates
C12_Witness ==
    /\ BatchRejected
    /\ Len(raw_cards) = 2
    /\ SameIdPair
    /\ raw_cards[1].v["id"] # raw_cards[2].v["id"]
    /\ validated_all.err = DuplicateError(ResultOf(1).card.id)

\* record k does not validate, or its id is that of an earlier record
BadAt(k) ==
    \/ ResultOf(k).raised # ""
    \/ \E j \in 1..(k - 1) :
            ResultOf(j).raised = "" /\ ResultOf(j).card.id = ResultOf(k).card.id

\* the error of position k
ErrorAt(k) ==
    IF ResultOf(k).raised # "" THEN ResultOf(k).err
    ELSE DuplicateError(ResultOf(k).card.id)

\* C13: the records are taken in input order, all or nothing: the earliest
\* position that is invalid or repeats an earlier id raises its error and
\* no card is returned; if there is none, one card per record is returned,
\* in input order.
C13_InOrderAllOrNothing ==
    ValidatedAll =>
        LET bad == {k \in 1..Len(raw_cards) : BadAt(k)}
        IN  IF bad = {}
            THEN /\ BatchReturned
                 /\ validated_all.cards = [k \in 1..Len(raw_cards) |-> ResultOf(k).card]
            ELSE /\ BatchRejected
                 /\ validated_all.cards = NoneV
                 /\ validated_all.err = ErrorAt(CHOOSE k \in bad : \A j \in bad : k <= j)

\* C13, its case: the second record repeats the first one's id and the
\* third is invalid; the duplicate is what is raised
C13_Witness ==
    /\ BatchRejected
    /\ Len(raw_cards) = 3
    /\ ResultOf(1).raised = ""
    /\ ResultOf(2).raised = ""
    /\ ResultOf(3).raised # ""
    /\ validated_all.err = DuplicateError(ResultOf(1).card.id)

----------------------------------------------------------------------------
(* The claims about retrieve.                                              *)

Retrieved == pc = "retrieved"

\* The query as retrieve reads it
QueryText == Strip(OrEmpty(query).s)

\* The cards that share a token that is no stopword with the query, in
\* title, tags or summary
Matching ==
    SelectSeq(cards, LAMBDA card :
        \E name \in {"title", "tags", "summary"} :
            Tokens(QueryText) \cap Tokens(Stringify(GetAttr(card, name))) # {})

\* The first top_k of them
TopMatching == SubSeq(Matching, 1, IF top_k < Len(Matching) THEN top_k ELSE Len(Matching))

\* C16: retrieve(query, cards, top_k, debug=True) with a non-empty query
\* returns a pair (results, debug_map); results holds the matching card
\* objects themselves, in input order, at most top_k of them, and
\* debug_map[i] gives the matched fields and the matched terms of the i-th
\* result.
C16_DebugPairOfCards ==
    (Retrieved /\ debug /\ QueryText # <<>>) =>
        /\ retrieved.raised = ""
        /\ retrieved.paired
        /\ retrieved.results = TopMatching
        /\ DOMAIN retrieved.debug_map = 0..(Len(TopMatching) - 1)
        /\ \A i \in 0..(Len(TopMatching) - 1) :
                retrieved.debug_map[i] = MatchDebug(Tokens(QueryText), TopMatching[i + 1])

====
